---- MODULE Spec2Model ----
(***************************************************************************)
(* The allocation + Merkle-proof generation pipeline of the ylockers       *)
(* merkle drop: utils/merkle.py (MerkleTree, create_merkle), the two YB    *)
(* generators (scripts/drops/yb/generate_merkle_data.py and                *)
(* scripts/generate_yb_merkle_root.py), the claim contract the tests of    *)
(* tests/test_drops.py drive, the event-log cache of                       *)
(* utils/event_cache.py as scripts/drops/yb/snapshot.py uses it,           *)
(* get_logs_chunked of utils/eth.py, and the Summer proxy consolidation    *)
(* of scripts/drops/yb/snapshot.py.                                        *)
(*                                                                         *)
(* Representation.                                                         *)
(*  - An address is <<id, form>>: form 0 is the lower-case hex string,     *)
(*    form 1 the checksummed (mixed-case) string of the same 20 bytes.     *)
(*  - A Python dict is a sequence of <<key, value>> pairs with distinct    *)
(*    keys, in insertion order (the order a dict iterates in).             *)
(*  - A 32-byte Keccak digest is the term of what was hashed: <<payload>>  *)
(*    for the digest of a leaf payload, <<a, b>> for the digest of the     *)
(*    64 bytes a ++ b. Distinct preimages give distinct digests (the hash  *)
(*    is collision-free). The raw byte order of digests is arbitrary; it   *)
(*    is fixed by keccakSeed, drawn in Init.                               *)
(*    A hex string "0x.." of bytes b is the record [hex |-> b].            *)
(*  - None is the empty tuple.                                             *)
(***************************************************************************)
EXTENDS Integers, Sequences, FiniteSets, TLC

VARIABLES
    routine,            \* which generator runs
    weights,            \* input dict: user_amount_data argument / ycrv_amounts_wei
    total_distribution, \* total_distribution / total_tokens / TOTAL_YB_DISTRIBUTION
    keccakSeed,         \* fixes the byte order of Keccak digests
    pc,                 \* position of the generator
    user_amount_data,   \* the allocation dict (user_amount_data / yb_amounts)
    addresses,          \* addresses / addresses_sorted
    iters,              \* dust corrections made so far
    tree,               \* the MerkleTree object: [elements, layers]
    nodes,              \* encoded leaves, in index order
    distribution,       \* the in-memory artifact
    file,               \* the artifact file on disk
    file0,              \* the artifact file when the run started
    error,              \* the exception that ended the run, "" when none
    elementsIn,         \* tree harness: the leaves handed to MerkleTree
    tree2,              \* tree harness: a tree built from a reordering
    proofOut,           \* tree harness: result of the last get_proof call
    proofPrev,          \* tree harness: result of the call before it, kept when it
                        \* was for the same leaf
    dropRoot,           \* claim contract: merkle root of the drop
    claimed,            \* claim contract: accounts whose claimed flag is set
    paid,               \* claim contract: tokens transferred, per account
    lastTx,             \* claim contract: the last claim transaction and its outcome
    cacheFile,          \* event cache: the "caches" dict of event_cache.json
    chainLogs,          \* event cache: the event logs of the chain, per block
    deployBlocks,       \* event cache: the YCRV[..._DEPLOY_BLOCK] of each scan site
    scan,               \* event cache: the scan_events_with_cache call and its locals
    chunked,            \* utils/eth.py: the get_logs_chunked call and its locals
    summer              \* snapshot: the Summer proxy consolidation and its locals

vars == <<routine, weights, total_distribution, keccakSeed, pc, user_amount_data,
          addresses, iters, tree, nodes, distribution, file, file0, error,
          elementsIn, tree2, proofOut, proofPrev, dropRoot, claimed, paid, lastTx,
          cacheFile, chainLogs, deployBlocks, scan, chunked, summer>>

---------------------------------------------------------------------------
(* Bounds of the model *)

MaxAddr == 2        \* distinct 20-byte addresses of the generation runs
MaxLen == 2         \* entries of the input weight map of the generation runs
MaxWeight == 2      \* largest weight of one entry
MaxTotal == 10      \* largest total to distribute
MaxSeed == 2        \* byte orders of the hash that are tried
MaxIters == 2       \* cap on the iterations of the dust loop
MaxPool == 4        \* tree harness: distinct leaves to choose from
MaxLeaves == 4      \* tree harness: length of the leaf list handed to MerkleTree
MaxClaimants == 3   \* claim contract: holders of the published snapshot
MaxBlock == 3       \* event cache: blocks of the chain
MaxDeploy == 2      \* event cache: latest deploy_block handed to a scan
MaxChunk == 2       \* get_logs_chunked: largest chunk_size handed to a call
MaxAccounts == 3    \* Summer proxies: accounts known to the guard
MaxListed == 2      \* Summer proxies: most accounts in `values`
MaxValue == 2       \* Summer proxies: largest value of an account

(* the default chunk_size of scan_events_with_cache (70_000 blocks), which every
   caller uses; scaled down here *)
CHUNK_SIZE == 2

(* generate_yb_merkle_root.py fixes its total in a module constant
   (116_459_570000000000000000 wei); scaled down here. *)
TOTAL_YB_DISTRIBUTION == 10

None == <<>>

---------------------------------------------------------------------------
(* Generic helpers: Python builtins *)

RECURSIVE SumSeq(_)
SumSeq(s) == IF s = <<>> THEN 0 ELSE s[1] + SumSeq(Tail(s))

Range(s) == {s[i] : i \in DOMAIN s}

(* dict helpers: keys(), values(), d[k], d[k] = v *)
DictKeys(d) == [i \in DOMAIN d |-> d[i][1]]
DictValues(d) == [i \in DOMAIN d |-> d[i][2]]
DictHas(d, k) == \E i \in DOMAIN d : d[i][1] = k
DictGet(d, k) == d[CHOOSE i \in DOMAIN d : d[i][1] = k][2]
DictSet(d, k, v) ==
    IF DictHas(d, k)
    THEN [i \in DOMAIN d |-> IF d[i][1] = k THEN <<k, v>> ELSE d[i]]
    ELSE Append(d, <<k, v>>)

(* str.lower() of an address string *)
Lower(a) == <<a[1], 0>>

(* web3.to_checksum_address *)
to_checksum_address(a) == <<a[1], 1>>

(* str(n): the decimal digits of n, most significant first *)
RECURSIVE Str(_)
Str(n) == IF n < 10 THEN <<n>> ELSE Append(Str(n \div 10), n % 10)

(* int(s) of a decimal string *)
RECURSIVE ParseInt(_)
ParseInt(s) ==
    IF Len(s) = 0 THEN 0
    ELSE 10 * ParseInt(SubSeq(s, 1, Len(s) - 1)) + s[Len(s)]

---------------------------------------------------------------------------
(* Encoding and hashing *)

(* encode_packed(["address","uint","uint"], (account, index, amount)): 20 + 32 + 32
   bytes. The address bytes do not depend on the letter case of the hex string. *)
encode_packed(el) == <<el[1][1], el[2], el[3]>>

(* eth_utils.encode_hex: the "0x..." string of a byte string *)
encode_hex(b) == [hex |-> b]

(* web3.keccak(hexstr=el) of an encoded leaf: decodes the hex string, hashes the bytes *)
keccak_leaf(el) == <<el.hex>>

(* web3.keccak of the concatenation of two 32-byte values *)
keccak_concat(a, b) == <<a, b>>

(* The position of a digest in raw byte order. Keccak output is unpredictable, so
   the order is a scrambling of the preimage that changes with the seed; ties of the
   scrambled key are broken structurally, which keeps the order total. *)
RECURSIVE DigestKey(_, _)
DigestKey(d, seed) ==
    IF Len(d) = 1
    THEN ((d[1][1] * 5 + d[1][2] * 3 + d[1][3]) * (2 * seed + 1) + seed) % 17
    ELSE (DigestKey(d[1], seed) * 3 + DigestKey(d[2], seed) * 7 + seed) % 17

RECURSIVE StructLess(_, _)
StructLess(x, y) ==
    IF Len(x) # Len(y) THEN Len(x) < Len(y)
    ELSE IF Len(x) = 1
    THEN \/ x[1][1] < y[1][1]
         \/ x[1][1] = y[1][1] /\ x[1][2] < y[1][2]
         \/ x[1][1] = y[1][1] /\ x[1][2] = y[1][2] /\ x[1][3] < y[1][3]
    ELSE \/ StructLess(x[1], y[1])
         \/ x[1] = y[1] /\ StructLess(x[2], y[2])

(* a < b on bytes *)
BytesLess(a, b, seed) ==
    \/ DigestKey(a, seed) < DigestKey(b, seed)
    \/ DigestKey(a, seed) = DigestKey(b, seed) /\ StructLess(a, b)

(* sorted(S) of a set of digests, ascending *)
RECURSIVE SortedSet(_, _)
SortedSet(S, seed) ==
    IF S = {} THEN <<>>
    ELSE LET m == CHOOSE x \in S : \A y \in S \ {x} : BytesLess(x, y, seed)
         IN <<m>> \o SortedSet(S \ {m}, seed)

---------------------------------------------------------------------------
(* utils/merkle.py: class MerkleTree *)

(* concatenates in argument order instead of sorted order *)
combined_hash_unsorted(a, b, seed) ==
    IF a = None THEN b
    ELSE IF b = None THEN a
    ELSE keccak_concat(a, b)

combined_hash(a, b, seed) ==
    IF a = None THEN b
    ELSE IF b = None THEN a
    ELSE IF BytesLess(b, a, seed) THEN keccak_concat(b, a) ELSE keccak_concat(a, b)

(* zip_longest(elements[::2], elements[1::2]) folded through combined_hash *)
get_next_layer(elements, seed) ==
    [i \in 1..((Len(elements) + 1) \div 2) |->
        combined_hash(elements[2 * i - 1],
                      IF 2 * i <= Len(elements) THEN elements[2 * i] ELSE None,
                      seed)]

RECURSIVE get_layers_from(_, _)
get_layers_from(layers, seed) ==
    IF Len(layers[Len(layers)]) > 1
    THEN get_layers_from(Append(layers, get_next_layer(layers[Len(layers)], seed)), seed)
    ELSE layers

(* builds the next layer once before testing the length of the last one *)
get_layers_dowhile(elements, seed) ==
    get_layers_from(<<elements, get_next_layer(elements, seed)>>, seed)

get_layers(elements, seed) == get_layers_from(<<elements>>, seed)

(* keeps the leaves in input order (first occurrences) instead of sorting them *)
RECURSIVE FirstOccurrences(_, _)
FirstOccurrences(s, acc) ==
    IF s = <<>> THEN acc
    ELSE FirstOccurrences(Tail(s),
            IF s[1] \in Range(acc) THEN acc ELSE Append(acc, s[1]))

MerkleTree_unsorted(elements, seed) ==
    LET els == FirstOccurrences([i \in DOMAIN elements |-> keccak_leaf(elements[i])], <<>>)
    IN [elements |-> els, layers |-> get_layers(els, seed)]

(* sorted(list) of a list of digests, ascending, repeated digests kept *)
RECURSIVE InsertAsc(_, _, _)
InsertAsc(sorted, x, seed) ==
    IF sorted = <<>> THEN <<x>>
    ELSE IF BytesLess(x, sorted[1], seed)
         THEN <<x>> \o sorted
         ELSE <<sorted[1]>> \o InsertAsc(Tail(sorted), x, seed)

RECURSIVE SortedList(_, _, _)
SortedList(s, seed, acc) ==
    IF s = <<>> THEN acc
    ELSE SortedList(Tail(s), seed, InsertAsc(acc, s[1], seed))

(* sorts the leaf hashes without removing the repeated ones *)
MerkleTree_nodedup(elements, seed) ==
    LET els == SortedList([i \in DOMAIN elements |-> keccak_leaf(elements[i])], seed, <<>>)
    IN [elements |-> els, layers |-> get_layers(els, seed)]

(* MerkleTree.__init__ *)
MerkleTree(elements, seed) ==
    LET els == SortedSet({keccak_leaf(elements[i]) : i \in DOMAIN elements}, seed)
    IN [elements |-> els, layers |-> get_layers(els, seed)]

(* MerkleTree.root: layers[-1][0]; IndexError when the last layer is empty *)
RootFails(t) == Len(t.layers[Len(t.layers)]) = 0
root(t) == t.layers[Len(t.layers)][1]

(* self.elements.index(el): 0-based; ValueError when el is absent *)
IndexOf(s, x) == (CHOOSE i \in DOMAIN s : s[i] = x /\ \A j \in 1..(i - 1) : s[j] # x) - 1

(* collects the siblings from the top layer down instead of from the leaf up *)
RECURSIVE get_proof_from_topdown(_, _, _, _)
get_proof_from_topdown(t, k, idx, proof) ==
    IF k > Len(t.layers) THEN proof
    ELSE LET layer == t.layers[k]
             pair_idx == IF idx % 2 = 0 THEN idx + 1 ELSE idx - 1
         IN get_proof_from_topdown(t, k + 1, idx \div 2,
                IF pair_idx < Len(layer)
                THEN <<encode_hex(layer[pair_idx + 1])>> \o proof
                ELSE proof)

(* the loop of get_proof over self.layers, from layer k (1-based) with the 0-based
   running index idx *)
RECURSIVE get_proof_from(_, _, _, _)
get_proof_from(t, k, idx, proof) ==
    IF k > Len(t.layers) THEN proof
    ELSE LET layer == t.layers[k]
             pair_idx == IF idx % 2 = 0 THEN idx + 1 ELSE idx - 1
         IN get_proof_from(t, k + 1, idx \div 2,
                IF pair_idx < Len(layer)
                THEN Append(proof, encode_hex(layer[pair_idx + 1]))
                ELSE proof)

(* keeps the running index of layer 0 on every layer *)
RECURSIVE get_proof_steps_nohalve(_, _, _)
get_proof_steps_nohalve(t, k, idx) ==
    IF k > Len(t.layers) THEN <<>>
    ELSE LET layer == t.layers[k]
             pair_idx == IF idx % 2 = 0 THEN idx + 1 ELSE idx - 1
         IN <<[layer |-> k, idx |-> idx, pair_idx |-> pair_idx,
               appended |-> (pair_idx < Len(layer))]>>
            \o get_proof_steps_nohalve(t, k + 1, idx)

(* the passes of the same loop, one record per layer visited: the layer (1-based),
   the running index on entry, the sibling index, and whether an entry was appended *)
RECURSIVE get_proof_steps(_, _, _)
get_proof_steps(t, k, idx) ==
    IF k > Len(t.layers) THEN <<>>
    ELSE LET layer == t.layers[k]
             pair_idx == IF idx % 2 = 0 THEN idx + 1 ELSE idx - 1
         IN <<[layer |-> k, idx |-> idx, pair_idx |-> pair_idx,
               appended |-> (pair_idx < Len(layer))]>>
            \o get_proof_steps(t, k + 1, idx \div 2)

get_proof_fails(t, el) == keccak_leaf(el) \notin Range(t.elements)

get_proof(t, el) == get_proof_from(t, 1, IndexOf(t.elements, keccak_leaf(el)), <<>>)

---------------------------------------------------------------------------
(* The allocation: create_merkle lines 51-63, the generators' main *)

Routines == {"create_merkle", "yb_drop", "yb_root"}

(* sum(d.values()) *)
SumValues(d) == SumSeq(DictValues(d))

(* {k.lower(): (v * total) // total_amounts for k, v in d.items()} *)
RECURSIVE FloorAmounts(_, _, _, _)
FloorAmounts(items, total, total_amounts, acc) ==
    IF items = <<>> THEN acc
    ELSE FloorAmounts(Tail(items), total, total_amounts,
            DictSet(acc, Lower(items[1][1]), (items[1][2] * total) \div total_amounts))

(* sorted(d, key=lambda k: d[k], reverse=True): stable, so keys of equal value keep
   the dict's iteration order *)
(* puts a key in front of the keys of equal value *)
RECURSIVE InsertDesc_unstable(_, _, _)
InsertDesc_unstable(sorted, k, d) ==
    IF sorted = <<>> THEN <<k>>
    ELSE IF DictGet(d, sorted[1]) > DictGet(d, k)
         THEN <<sorted[1]>> \o InsertDesc_unstable(Tail(sorted), k, d)
         ELSE <<k>> \o sorted

RECURSIVE InsertDesc(_, _, _)
InsertDesc(sorted, k, d) ==
    IF sorted = <<>> THEN <<k>>
    ELSE IF DictGet(d, sorted[1]) >= DictGet(d, k)
         THEN <<sorted[1]>> \o InsertDesc(Tail(sorted), k, d)
         ELSE <<k>> \o sorted

RECURSIVE SortedDescFrom(_, _, _)
SortedDescFrom(keys, d, acc) ==
    IF keys = <<>> THEN acc
    ELSE SortedDescFrom(Tail(keys), d, InsertDesc(acc, keys[1], d))

SortedDesc(d) == SortedDescFrom(DictKeys(d), d, <<>>)

(* The position in `addresses` (1-based) of the address that receives the dust:
   create_merkle line 62 takes addresses[len(addresses) - 1],
   the YB generators take addresses_sorted[0]. *)
DustPosition(r, addrs) == IF r = "create_merkle" THEN Len(addrs) ELSE 1

(* adds one unit less than the shortfall *)
AddDust_short(r, d, addrs, total) ==
    LET k == addrs[DustPosition(r, addrs)]
    IN DictSet(d, k, DictGet(d, k) + (total - SumValues(d)) - 1)

(* adds one unit of the shortfall per pass *)
AddDust_unit(r, d, addrs, total) ==
    LET k == addrs[DustPosition(r, addrs)]
    IN DictSet(d, k, DictGet(d, k) + 1)

(* d[addresses[..]] += diff *)
AddDust(r, d, addrs, total) ==
    LET k == addrs[DustPosition(r, addrs)]
    IN DictSet(d, k, DictGet(d, k) + (total - SumValues(d)))

---------------------------------------------------------------------------
(* Leaves, tree and artifact: create_merkle lines 65-82, main lines 93-113 *)

(* [(account, index, d[account]) for index, account in enumerate(addresses)] *)
Elements(addrs, d) == [i \in DOMAIN addrs |-> <<addrs[i], i - 1, DictGet(d, addrs[i])>>]

(* [encode_hex(encode_packed([...], el)) for el in elements] *)
Nodes(elements) == [i \in DOMAIN elements |-> encode_hex(encode_packed(elements[i]))]

(* the "claims" dict comprehension *)
RECURSIVE ClaimsFrom(_, _, _, _)
ClaimsFrom(elements, nds, t, acc) ==
    IF elements = <<>> THEN acc
    ELSE LET el == elements[1]
         IN ClaimsFrom(Tail(elements), nds, t,
                DictSet(acc, to_checksum_address(el[1]),
                        [index |-> el[2],
                         amount |-> Str(el[3]),
                         proof |-> get_proof(t, nds[el[2] + 1])]))

description == <<>>

Distribution(r, d, addrs, nds, t) ==
    LET claims == ClaimsFrom(Elements(addrs, d), nds, t, <<>>)
    IN IF r = "create_merkle"
       THEN [merkle_root |-> encode_hex(root(t)),
             token_total |-> SumValues(d),
             claims |-> claims]
       ELSE [description |-> description,
             merkle_root |-> encode_hex(root(t)),
             token_total |-> Str(SumValues(d)),
             num_recipients |-> Len(d),
             claims |-> claims]

NoTree == [elements |-> <<>>, layers |-> <<>>]
NoDistribution == [none |-> TRUE]
NoFile == [exists |-> FALSE]
OldFile == [exists |-> TRUE, stale |-> TRUE]
NoTx == [result |-> "none"]
NoProof == [result |-> "none"]
NoTree2 == [input |-> <<>>, elements |-> <<>>, layers |-> <<>>]
NoScan == [pc |-> "idle"]
NoChunked == [pc |-> "idle"]
NoSummer == [pc |-> "idle"]

---------------------------------------------------------------------------
(* Inputs *)

(* Address strings: every address in lower case, address 1 also checksummed *)
AddressStrings == {<<i, 0>> : i \in 1..MaxAddr} \cup {<<1, 1>>}

(* dicts with up to MaxLen distinct keys and weights 0..MaxWeight *)
WeightMaps ==
    UNION {{w \in [1..n -> AddressStrings \X (0..MaxWeight)] :
              \A i, j \in 1..n : i # j => w[i][1] # w[j][1]} : n \in 0..MaxLen}

Totals(r) == IF r = "yb_root" THEN {TOTAL_YB_DISTRIBUTION} ELSE 0..MaxTotal

---------------------------------------------------------------------------
(* The generation run *)

harnessVars == <<elementsIn, tree2, proofOut, proofPrev>>
contractVars == <<dropRoot, claimed, paid, lastTx>>
inputVars == <<routine, weights, total_distribution, keccakSeed, file0>>
cacheVars == <<cacheFile, chainLogs, deployBlocks, scan>>
snapshotVars == <<chunked, summer>>

Init ==
    /\ routine \in Routines
    /\ weights \in WeightMaps
    /\ total_distribution \in Totals(routine)
    /\ keccakSeed \in 1..MaxSeed
    /\ file0 \in {NoFile, OldFile}
    /\ file = file0
    /\ pc = "allocate"
    /\ user_amount_data = <<>>
    /\ addresses = <<>>
    /\ iters = 0
    /\ tree = NoTree
    /\ nodes = <<>>
    /\ distribution = NoDistribution
    /\ error = ""
    /\ elementsIn = <<>>
    /\ tree2 = NoTree2
    /\ proofOut = NoProof
    /\ proofPrev = NoProof
    /\ dropRoot = encode_hex(<<>>)
    /\ claimed = {}
    /\ paid = <<>>
    /\ lastTx = NoTx
    /\ cacheFile = <<>>
    /\ chainLogs = <<>>
    /\ deployBlocks = <<>>
    /\ chunked = NoChunked
    /\ summer = NoSummer
    /\ scan = NoScan

Fail(e) ==
    /\ pc' = "failed"
    /\ error' = e

(* drops/yb main lines 29-43: no snapshot file, or the output exists and the
   operator does not confirm the overwrite: the run returns *)
Cancel ==
    /\ pc = "allocate"
    /\ routine = "yb_drop"
    /\ pc' = "cancelled"
    /\ UNCHANGED <<user_amount_data, addresses, iters, tree, nodes, distribution,
                   file, error>>
    /\ UNCHANGED <<inputVars, harnessVars, contractVars, cacheVars, snapshotVars>>

(* divides by 1 when the weights sum to 0 instead of raising *)
Allocate_ZeroAsOne ==
    /\ pc = "allocate"
    /\ LET total_amounts == IF SumValues(weights) = 0 THEN 1 ELSE SumValues(weights)
           d == FloorAmounts(weights, total_distribution, total_amounts, <<>>)
       IN /\ user_amount_data' = d
          /\ addresses' = SortedDesc(d)
          /\ pc' = "dust"
          /\ UNCHANGED error
    /\ UNCHANGED <<iters, tree, nodes, distribution, file>>
    /\ UNCHANGED <<inputVars, harnessVars, contractVars, cacheVars, snapshotVars>>

(* create_merkle lines 51-59; main lines 69-78 *)
Allocate ==
    /\ pc = "allocate"
    /\ LET total_amounts == SumValues(weights)
       IN IF weights # <<>> /\ total_amounts = 0
          THEN /\ Fail("ZeroDivisionError")
               /\ UNCHANGED <<user_amount_data, addresses>>
          ELSE LET d == FloorAmounts(weights, total_distribution, total_amounts, <<>>)
               IN /\ user_amount_data' = d
                  /\ addresses' = SortedDesc(d)
                  /\ pc' = "dust"
                  /\ UNCHANGED error
    /\ UNCHANGED <<iters, tree, nodes, distribution, file>>
    /\ UNCHANGED <<inputVars, harnessVars, contractVars, cacheVars, snapshotVars>>

(* one pass of `while sum < total` (create_merkle lines 60-62), or the body of
   `if current_total < total_tokens` (main lines 80-82) *)
DustStep ==
    /\ pc = "dust"
    /\ SumValues(user_amount_data) < total_distribution
    /\ routine = "create_merkle" \/ iters = 0
    /\ iters < MaxIters
    /\ IF addresses = <<>>
       THEN /\ Fail("IndexError")
            /\ UNCHANGED <<user_amount_data, iters>>
       ELSE /\ user_amount_data' =
                   AddDust(routine, user_amount_data, addresses, total_distribution)
            /\ iters' = iters + 1
            /\ UNCHANGED <<pc, error>>
    /\ UNCHANGED <<addresses, tree, nodes, distribution, file>>
    /\ UNCHANGED <<inputVars, harnessVars, contractVars, cacheVars, snapshotVars>>

(* the assert of create_merkle line 63, main line 87 *)
AssertSum ==
    /\ pc = "dust"
    /\ \/ ~(SumValues(user_amount_data) < total_distribution)
       \/ routine # "create_merkle" /\ iters > 0
    /\ IF SumValues(user_amount_data) = total_distribution
       THEN pc' = "build" /\ UNCHANGED error
       ELSE Fail("AssertionError")
    /\ UNCHANGED <<user_amount_data, addresses, iters, tree, nodes, distribution, file>>
    /\ UNCHANGED <<inputVars, harnessVars, contractVars, cacheVars, snapshotVars>>

(* create_merkle lines 65-69; main lines 93-98 *)
BuildTree ==
    /\ pc = "build"
    /\ nodes' = Nodes(Elements(addresses, user_amount_data))
    /\ tree' = MerkleTree(nodes', keccakSeed)
    /\ pc' = "assemble"
    /\ UNCHANGED <<user_amount_data, addresses, iters, distribution, file, error>>
    /\ UNCHANGED <<inputVars, harnessVars, contractVars, cacheVars, snapshotVars>>

(* opens the output file for writing before the root and the proofs are computed *)
Assemble_OpenFirst ==
    /\ pc = "assemble"
    /\ IF RootFails(tree)
       THEN Fail("IndexError") /\ UNCHANGED distribution /\ file' = [exists |-> TRUE]
       ELSE IF \E i \in DOMAIN nodes : get_proof_fails(tree, nodes[i])
       THEN Fail("ValueError") /\ UNCHANGED distribution /\ file' = [exists |-> TRUE]
       ELSE /\ distribution' =
                   Distribution(routine, user_amount_data, addresses, nodes, tree)
            /\ pc' = "write"
            /\ UNCHANGED <<error, file>>
    /\ UNCHANGED <<user_amount_data, addresses, iters, tree, nodes>>
    /\ UNCHANGED <<inputVars, harnessVars, contractVars, cacheVars, snapshotVars>>

(* create_merkle lines 71-82; main lines 100-113 *)
Assemble ==
    /\ pc = "assemble"
    /\ IF RootFails(tree)
       THEN Fail("IndexError") /\ UNCHANGED distribution
       ELSE IF \E i \in DOMAIN nodes : get_proof_fails(tree, nodes[i])
       THEN Fail("ValueError") /\ UNCHANGED distribution
       ELSE /\ distribution' =
                   Distribution(routine, user_amount_data, addresses, nodes, tree)
            /\ pc' = "write"
            /\ UNCHANGED error
    /\ UNCHANGED <<user_amount_data, addresses, iters, tree, nodes, file>>
    /\ UNCHANGED <<inputVars, harnessVars, contractVars, cacheVars, snapshotVars>>

(* create_merkle lines 85-86; main lines 116-118: json.dump into the output file *)
WriteFile ==
    /\ pc = "write"
    /\ file' = distribution
    /\ pc' = "done"
    /\ UNCHANGED <<user_amount_data, addresses, iters, tree, nodes, distribution, error>>
    /\ UNCHANGED <<inputVars, harnessVars, contractVars, cacheVars, snapshotVars>>

Next ==
    \/ Cancel
    \/ Allocate
    \/ DustStep
    \/ AssertSum
    \/ BuildTree
    \/ Assemble
    \/ WriteFile

Spec == Init /\ [][Next]_vars

---------------------------------------------------------------------------
(* The tree harness: MerkleTree on arbitrary leaf lists *)

(* encoded leaves as the callers produce them *)
LeafPool == {encode_hex(<<i, 0, i>>) : i \in 1..MaxPool}

LeafLists == UNION {[1..n -> LeafPool] : n \in 0..MaxLeaves}

InitTree ==
    /\ elementsIn \in LeafLists
    /\ keccakSeed \in 1..MaxSeed
    /\ pc = "new"
    /\ tree = NoTree
    /\ tree2 = NoTree2
    /\ proofOut = NoProof
    /\ proofPrev = NoProof
    /\ error = ""
    /\ routine = "MerkleTree"
    /\ weights = <<>>
    /\ total_distribution = 0
    /\ file0 = NoFile
    /\ file = NoFile
    /\ user_amount_data = <<>>
    /\ addresses = <<>>
    /\ iters = 0
    /\ nodes = <<>>
    /\ distribution = NoDistribution
    /\ dropRoot = encode_hex(<<>>)
    /\ claimed = {}
    /\ paid = <<>>
    /\ lastTx = NoTx
    /\ cacheFile = <<>>
    /\ chainLogs = <<>>
    /\ deployBlocks = <<>>
    /\ chunked = NoChunked
    /\ summer = NoSummer
    /\ scan = NoScan

generationVars == <<user_amount_data, addresses, iters, nodes, distribution, file>>

(* tree = MerkleTree(elementsIn) *)
Construct ==
    /\ pc = "new"
    /\ tree' = MerkleTree(elementsIn, keccakSeed)
    /\ pc' = "built"
    /\ UNCHANGED <<tree2, proofOut, proofPrev, elementsIn, error>>
    /\ UNCHANGED <<inputVars, generationVars, contractVars, cacheVars, snapshotVars>>

(* Other lists holding the same set of leaves as s: two entries swapped, the list
   reversed, one entry repeated at the end, one repeated entry dropped. Every list
   with the same set of leaves is reached from s by a chain of such steps. *)
Swapped(s, i, j) ==
    [k \in DOMAIN s |-> IF k = i THEN s[j] ELSE IF k = j THEN s[i] ELSE s[k]]
Reversed(s) == [k \in DOMAIN s |-> s[Len(s) + 1 - k]]
Dropped(s, i) == SubSeq(s, 1, i - 1) \o SubSeq(s, i + 1, Len(s))
Reorderings(s) ==
    ({Swapped(s, i, j) : i, j \in DOMAIN s}
     \cup {Reversed(s)}
     \cup {Append(s, s[i]) : i \in {k \in DOMAIN s : Len(s) < MaxLeaves}}
     \cup {Dropped(s, i) : i \in {k \in DOMAIN s : \E m \in DOMAIN s : m # k /\ s[m] = s[k]}})
    \ {s}

(* MerkleTree(other) for another list holding the same set of leaves *)
ConstructReordered ==
    /\ pc = "built"
    /\ tree2 = NoTree2
    /\ proofOut = NoProof
    /\ \E other \in Reorderings(elementsIn) :
          LET t == MerkleTree(other, keccakSeed)
          IN tree2' = [input |-> other, elements |-> t.elements, layers |-> t.layers]
    /\ UNCHANGED <<tree, proofOut, proofPrev, elementsIn, pc, error>>
    /\ UNCHANGED <<inputVars, generationVars, contractVars, cacheVars, snapshotVars>>

(* what the harness remembers of the call before a call for el: its result when it
   was for el too *)
PrevFor(el) ==
    IF proofOut.result # "none" /\ proofOut.leaf = el THEN proofOut ELSE NoProof

(* answers a leaf that is not in the tree with the walk from index 0 *)
CallGetProof_NoRaise ==
    /\ pc = "built"
    /\ tree2 = NoTree2
    /\ \E el \in LeafPool :
          /\ proofOut' =
             [result |-> "ok", leaf |-> el,
              proof |-> IF get_proof_fails(tree, el)
                        THEN get_proof_from(tree, 1, 0, <<>>)
                        ELSE get_proof(tree, el)]
          /\ proofPrev' = PrevFor(el)
    /\ UNCHANGED <<tree, tree2, elementsIn, pc, error>>
    /\ UNCHANGED <<inputVars, generationVars, contractVars, cacheVars, snapshotVars>>

(* removes the leaf from self.elements once its proof was returned *)
CallGetProof_Consuming ==
    /\ pc = "built"
    /\ tree2 = NoTree2
    /\ \E el \in LeafPool :
          /\ IF get_proof_fails(tree, el)
             THEN /\ proofOut' = [result |-> "ValueError", leaf |-> el]
                  /\ UNCHANGED tree
             ELSE /\ proofOut' = [result |-> "ok", leaf |-> el, proof |-> get_proof(tree, el)]
                  /\ tree' = [tree EXCEPT !.elements =
                               Dropped(tree.elements,
                                       IndexOf(tree.elements, keccak_leaf(el)) + 1)]
          /\ proofPrev' = PrevFor(el)
    /\ UNCHANGED <<tree2, elementsIn, pc, error>>
    /\ UNCHANGED <<inputVars, generationVars, contractVars, cacheVars, snapshotVars>>

(* tree.get_proof(el): the ValueError of self.elements.index(el) when the hash of el
   is not in layer 0, the proof otherwise; self is only read *)
CallGetProof ==
    /\ pc = "built"
    /\ tree2 = NoTree2
    /\ \E el \in LeafPool :
          /\ proofOut' =
                IF get_proof_fails(tree, el)
                THEN [result |-> "ValueError", leaf |-> el]
                ELSE [result |-> "ok", leaf |-> el, proof |-> get_proof(tree, el)]
          /\ proofPrev' = PrevFor(el)
    /\ UNCHANGED <<tree, tree2, elementsIn, pc, error>>
    /\ UNCHANGED <<inputVars, generationVars, contractVars, cacheVars, snapshotVars>>

NextTree ==
    \/ Construct
    \/ ConstructReordered
    \/ CallGetProof

SpecTree == InitTree /\ [][NextTree]_vars

(* C3: tree determinism. Two different input lists holding the same set of leaves
   (any order, any repetition) give identical layers and an identical root. *)
C3_TreeDeterminism ==
    (pc = "built" /\ tree2 # NoTree2)
    => /\ tree2.input # elementsIn
       /\ Range(tree2.input) = Range(elementsIn)
       /\ tree2.elements = tree.elements
       /\ tree2.layers = tree.layers
       /\ RootFails(tree2) = RootFails(tree)
       /\ ~RootFails(tree) => root(tree2) = root(tree)

C3_Witness ==
    /\ pc = "built"
    /\ tree2 # NoTree2
    /\ Len(tree.elements) >= 3
    /\ Len(elementsIn) > Len(tree.elements)
    /\ Len(tree2.input) = Len(elementsIn)
    /\ tree2.input[1] # elementsIn[1]

---------------------------------------------------------------------------
(* The claim contract (YlockerDrops), as tests/test_drops.py drives it with the
   artifact that generate_yb_merkle_root.py wrote *)

(* keccak256(abi.encodePacked(recipient, index, amount)) *)
contract_leaf(recipient, index, amount) == <<<<recipient[1], index, amount>>>>

(* the root rebuilt from a leaf and a proof: at each step the hash of the sorted
   concatenation of the running value and the next proof entry *)
RECURSIVE processProof(_, _, _)
processProof(proof, computed, seed) ==
    IF proof = <<>> THEN computed
    ELSE LET p == proof[1].hex
         IN processProof(Tail(proof),
                IF BytesLess(computed, p, seed)
                THEN keccak_concat(computed, p)
                ELSE keccak_concat(p, computed),
                seed)

(* does not look at the claimed flag *)
claim_result_noflag(flags, merkle_root, recipient, amount, proof, index, seed) ==
    IF encode_hex(processProof(proof, contract_leaf(recipient, index, amount), seed))
       # merkle_root
    THEN "invalid proof"
    ELSE "ok"

(* the outcome of claim(dropId, recipient, claimant, amount, proof, index) *)
claim_result(flags, merkle_root, recipient, amount, proof, index, seed) ==
    IF recipient \in flags THEN "already claimed"
    ELSE IF encode_hex(processProof(proof, contract_leaf(recipient, index, amount), seed))
            # merkle_root
    THEN "invalid proof"
    ELSE "ok"

(* hex strings a forged proof entry is taken from: the digest of the first leaf of
   the tree and a digest that is not in the tree *)
NodePool ==
    {encode_hex(keccak_leaf(encode_hex(<<0, 0, 0>>)))}
    \cup (IF RootFails(tree) THEN {} ELSE {encode_hex(tree.elements[1])})

(* the proofs a claimant may send for a record whose proof is pr: pr itself, pr with
   one entry replaced, with two entries swapped, with the last entry moved to the
   front (test_yb_invalid_proof), and the empty proof (test_claim) *)
ProofsSent(pr) ==
    {pr, <<>>}
    \cup {[pr EXCEPT ![i] = x] : i \in DOMAIN pr, x \in NodePool}
    \cup {Swapped(pr, i, j) : i, j \in DOMAIN pr}
    \cup {IF pr = <<>> THEN pr ELSE <<pr[Len(pr)]>> \o SubSeq(pr, 1, Len(pr) - 1)}

(* The published snapshot: snapshot.py sorts the holders by value, highest first
   (line 483), and keeps only those at or above the minimum amount (line 485), so
   the weights are positive and do not increase along the dict. The holders are
   numbered in the order of the snapshot; their keys are checksummed addresses. *)
SnapshotMaps ==
    UNION {{[i \in 1..n |-> <<<<i, 1>>, ws[i]>>] :
               ws \in {v \in [1..n -> 1..MaxWeight] :
                         \A i \in 1..(n - 1) : v[i] >= v[i + 1]}} :
             n \in 0..MaxClaimants}

InitClaim ==
    /\ routine = "yb_root"
    /\ weights \in SnapshotMaps
    /\ total_distribution = TOTAL_YB_DISTRIBUTION
    /\ keccakSeed \in 1..MaxSeed
    /\ file0 = NoFile
    /\ file = file0
    /\ pc = "allocate"
    /\ user_amount_data = <<>>
    /\ addresses = <<>>
    /\ iters = 0
    /\ tree = NoTree
    /\ nodes = <<>>
    /\ distribution = NoDistribution
    /\ error = ""
    /\ elementsIn = <<>>
    /\ tree2 = NoTree2
    /\ proofOut = NoProof
    /\ proofPrev = NoProof
    /\ dropRoot = encode_hex(<<>>)
    /\ claimed = {}
    /\ paid = <<>>
    /\ lastTx = NoTx
    /\ cacheFile = <<>>
    /\ chainLogs = <<>>
    /\ deployBlocks = <<>>
    /\ chunked = NoChunked
    /\ summer = NoSummer
    /\ scan = NoScan

runVars == <<user_amount_data, addresses, iters, tree, nodes, distribution, file, error>>

(* drops.createDrop(token, 0, duration, total_amount, merkle_root) with the
   merkle_root of the artifact file *)
CreateDrop ==
    /\ pc = "done"
    /\ dropRoot' = file.merkle_root
    /\ pc' = "drop"
    /\ UNCHANGED <<claimed, paid, lastTx>>
    /\ UNCHANGED <<runVars, inputVars, harnessVars, cacheVars, snapshotVars>>

(* drops.claim(drop_id, account, account, amount, proof, index) for an account of the
   artifact, with the amount and index of its record *)
ClaimTx ==
    /\ pc = "drop"
    /\ \E j \in DOMAIN file.claims :
          LET account == file.claims[j][1]
              rec == file.claims[j][2]
              amount == ParseInt(rec.amount)
          IN \E proof \in ProofsSent(rec.proof) :
                LET res == claim_result(claimed, dropRoot, account, amount, proof,
                                        rec.index, keccakSeed)
                IN /\ lastTx' = [account |-> account, amount |-> amount,
                                 index |-> rec.index, proof |-> proof,
                                 honest |-> (proof = rec.proof),
                                 prior |-> (account \in claimed),
                                 result |-> res]
                   /\ IF res = "ok"
                      THEN /\ claimed' = claimed \cup {account}
                           /\ paid' = DictSet(paid, account,
                                        amount + (IF DictHas(paid, account)
                                                  THEN DictGet(paid, account) ELSE 0))
                      ELSE UNCHANGED <<claimed, paid>>
    /\ UNCHANGED <<dropRoot, pc>>
    /\ UNCHANGED <<runVars, inputVars, harnessVars, cacheVars, snapshotVars>>

NextClaim ==
    \/ Allocate
    \/ DustStep
    \/ AssertSum
    \/ BuildTree
    \/ Assemble
    \/ WriteFile
    \/ CreateDrop
    \/ ClaimTx

SpecClaim == InitClaim /\ [][NextClaim]_vars

(* C2: proof validity. For every leaf of a built tree, folding get_proof of the leaf
   over the leaf's hash by sorted-concatenation hashing gives the root; and a claim
   sent with the index, amount and proof of an account's own record, for an account
   that has not claimed yet, is accepted. *)
C2_ProofValidity ==
    /\ pc \in {"assemble", "write", "done", "drop"}
       => \A i \in DOMAIN nodes :
             /\ ~get_proof_fails(tree, nodes[i])
             /\ processProof(get_proof(tree, nodes[i]), keccak_leaf(nodes[i]), keccakSeed)
                = root(tree)
    /\ (lastTx.result # "none" /\ lastTx.honest /\ ~lastTx.prior)
       => lastTx.result = "ok"

C2_Witness ==
    /\ pc = "drop"
    /\ Len(tree.elements) = 3
    /\ lastTx.result = "ok"
    /\ Len(lastTx.proof) = 2
    /\ lastTx.amount > 0

(* C8: proof rejection. A claim whose proof differs from the record's valid proof
   (one entry replaced by another value, two entries swapped, the last entry moved to
   the front, or the proof left empty) does not rebuild the root and is never
   accepted: it reverts with "invalid proof" when the account has not claimed yet. *)
C8_ProofRejection ==
    (lastTx.result # "none" /\ ~lastTx.honest)
    => /\ encode_hex(processProof(lastTx.proof,
                        contract_leaf(lastTx.account, lastTx.index, lastTx.amount),
                        keccakSeed)) # dropRoot
       /\ lastTx.result # "ok"
       /\ ~lastTx.prior => lastTx.result = "invalid proof"

C8_Witness ==
    /\ lastTx.result = "invalid proof"
    /\ Len(lastTx.proof) = 2
    /\ \E j \in DOMAIN file.claims :
          /\ file.claims[j][1] = lastTx.account
          /\ lastTx.proof = <<file.claims[j][2].proof[2], file.claims[j][2].proof[1]>>

(* C9: no double claim. The claimed flags only grow, and a claim for an account whose
   flag is set reverts with "already claimed" and changes neither the flags nor the
   amounts paid. *)
C9_NoDoubleClaim ==
    [][/\ claimed \subseteq claimed'
       /\ \A a \in claimed :
             (lastTx' # lastTx /\ lastTx'.account = a)
             => /\ lastTx'.result = "already claimed"
                /\ paid' = paid
                /\ claimed' = claimed]_vars

C9_Witness ==
    /\ lastTx.result = "already claimed"
    /\ lastTx.honest
    /\ lastTx.account \in claimed
    /\ DictGet(paid, lastTx.account) = lastTx.amount
    /\ lastTx.amount > 0

---------------------------------------------------------------------------
(* Properties of the generation run *)

(* the floor share floor(weight * T / total_weight) of every lower-cased address *)
FloorShares ==
    FloorAmounts(weights, total_distribution, SumValues(weights), <<>>)

(* T - sum(floor amounts) *)
Shortfall == total_distribution - SumValues(FloorShares)

(* the dust correction and the sum assertion are behind the run *)
Allocated == pc \in {"build", "assemble", "write", "done"}

(* the amount of the address ranked i (1-based; index i - 1 of the artifact) *)
AmountAt(i) == DictGet(user_amount_data, addresses[i])

(* C1: exact sum. For a non-empty weight map whose weights sum to more than 0 and a
   total T > 0, the sum assertion never fails, and once it is passed the allocation
   sums to exactly T. *)
C1_ExactSum ==
    (weights # <<>> /\ SumValues(weights) > 0 /\ total_distribution > 0)
    => /\ error # "AssertionError"
       /\ pc # "failed"
       /\ Allocated => SumValues(user_amount_data) = total_distribution

C1_Witness ==
    /\ pc = "done"
    /\ Len(weights) >= 2
    /\ total_distribution > 0
    /\ iters = 1
    /\ Shortfall > 0
    /\ SumValues(user_amount_data) = total_distribution

(* C29: the dust loop terminates. For every non-empty weight map with positive total
   weight and every total T >= 0, the `while sum < total_distribution` loop of
   create_merkle makes at most one pass, after a pass its test is false, and it is
   left with the sum equal to T (the assertion after it holds). *)
C29_DustLoopTerminates ==
    (routine = "create_merkle" /\ weights # <<>> /\ SumValues(weights) > 0)
    => /\ iters <= 1
       /\ (pc = "dust" /\ iters = 1)
          => ~(SumValues(user_amount_data) < total_distribution)
       /\ (pc = "dust" /\ ~(SumValues(user_amount_data) < total_distribution))
          => SumValues(user_amount_data) = total_distribution
       /\ error \notin {"AssertionError", "IndexError"}
       /\ Allocated => SumValues(user_amount_data) = total_distribution

(* the loop of create_merkle has made its one pass over a shortfall of two units or
   more, and its test is now false *)
C29_Witness ==
    /\ routine = "create_merkle"
    /\ pc = "dust"
    /\ iters = 1
    /\ Len(weights) >= 2
    /\ Shortfall >= 2
    /\ SumValues(user_amount_data) = total_distribution

(* C4: dust placement. In every routine the address ranked first holds its floor
   share plus the whole shortfall and every other address holds its floor share. *)
C4_DustToFirst ==
    (Allocated /\ SumValues(weights) > 0)
    => \A i \in DOMAIN addresses :
          AmountAt(i) = DictGet(FloorShares, addresses[i])
                        + (IF i = 1 THEN Shortfall ELSE 0)

(* C5: proportionality. In the final allocation every address other than the
   top-ranked one holds exactly its floor share, and no address holds less than
   its floor share. *)
C5_Proportional ==
    (Allocated /\ SumValues(weights) > 0)
    => \A i \in DOMAIN addresses :
          /\ AmountAt(i) >= DictGet(FloorShares, addresses[i])
          /\ i # 1 => AmountAt(i) = DictGet(FloorShares, addresses[i])

(* C6: index is the descending-amount rank. The indices of the artifact are exactly
   0..n-1, each used by one address, and the amount of index i is at least the
   amount of index i+1. *)
C6_IndexIsRank ==
    pc \in {"write", "done"}
    => LET claims == distribution.claims
           n == Len(claims)
       IN /\ {claims[j][2].index : j \in 1..n} = 0..(n - 1)
          /\ \A j, k \in 1..n :
                claims[j][2].index + 1 = claims[k][2].index
                => ParseInt(claims[j][2].amount) >= ParseInt(claims[k][2].amount)

(* the distinct lower-cased addresses of the weight map *)
LowerAddresses == {Lower(weights[i][1]) : i \in DOMAIN weights}

(* the token_total of an artifact as a number: create_merkle stores the integer,
   the YB generators its decimal string *)
TokenTotal(d) ==
    IF routine = "create_merkle" THEN d.token_total ELSE ParseInt(d.token_total)

(* C7: artifact consistency. token_total equals the input total and the sum of the
   claim amounts; the number of claim entries equals num_recipients and the number
   of distinct lower-cased addresses; every record carries the index and amount
   encoded in its address's leaf and the proof of that leaf. *)
C7_ArtifactConsistent ==
    pc \in {"write", "done"}
    => LET claims == distribution.claims
           n == Len(claims)
       IN /\ TokenTotal(distribution) = total_distribution
          /\ SumSeq([j \in 1..n |-> ParseInt(claims[j][2].amount)]) = total_distribution
          /\ "num_recipients" \in DOMAIN distribution
          /\ distribution.num_recipients = n
          /\ n = Cardinality(LowerAddresses)
          /\ \A j \in 1..n :
                LET rec == claims[j][2]
                    leaf == encode_hex(encode_packed(
                                <<claims[j][1], rec.index, ParseInt(rec.amount)>>))
                IN /\ leaf = nodes[rec.index + 1]
                   /\ ~get_proof_fails(tree, leaf)
                   /\ rec.proof = get_proof(tree, leaf)

(* C10: abort without artifact. The file differs from what it was when the run
   started only once the run is done: the sum check was passed, the tree and its
   root exist and the file holds the assembled artifact with a proof per leaf.
   A run that failed or was cancelled left the file as it was. *)
C10_AbortWithoutArtifact ==
    /\ file # file0
       => /\ pc = "done"
          /\ error = ""
          /\ SumValues(user_amount_data) = total_distribution
          /\ tree = MerkleTree(nodes, keccakSeed)
          /\ ~RootFails(tree)
          /\ distribution # NoDistribution
          /\ file = distribution
          /\ file.merkle_root = encode_hex(root(tree))
          /\ Len(file.claims) = Len(nodes)
    /\ pc \in {"failed", "cancelled"} => file = file0
    /\ error # "" => pc = "failed"

C10_Witness ==
    /\ pc = "failed"
    /\ error \in {"ZeroDivisionError", "IndexError"}
    /\ file0 = OldFile
    /\ file = OldFile

(* C11: zero total weight is an error. When the weight map is non-empty and its
   weights sum to 0, the run ends in the division-by-zero error of the first floor
   share (or was cancelled before it started): no amount was computed, no address
   ranked, no tree built, no artifact assembled and the file is what it was. *)
C11_ZeroWeightFails ==
    (weights # <<>> /\ SumValues(weights) = 0)
    => /\ pc \in {"allocate", "failed", "cancelled"}
       /\ pc = "failed" => error = "ZeroDivisionError"
       /\ user_amount_data = <<>>
       /\ addresses = <<>>
       /\ iters = 0
       /\ tree = NoTree
       /\ nodes = <<>>
       /\ distribution = NoDistribution
       /\ file = file0

C11_Witness ==
    /\ Len(weights) = 2
    /\ SumValues(weights) = 0
    /\ total_distribution > 0
    /\ pc = "failed"
    /\ error = "ZeroDivisionError"
    /\ user_amount_data = <<>>

(* C14: single recipient. For a weight map with exactly one address and total T the
   run fails only on a zero weight; otherwise that address is allocated T at index 0,
   the tree has exactly one layer with one element, the root is the hash of the one
   leaf, and get_proof of the leaf (and the proof of the artifact's one record) is
   the empty sequence. *)
C14_SingleRecipient ==
    Len(weights) = 1
    => LET a == Lower(weights[1][1])
           leaf == encode_hex(<<a[1], 0, total_distribution>>)
       IN /\ pc = "failed" => (error = "ZeroDivisionError" /\ weights[1][2] = 0)
          /\ Allocated
             => /\ user_amount_data = <<<<a, total_distribution>>>>
                /\ addresses = <<a>>
          /\ pc \in {"assemble", "write", "done"}
             => /\ nodes = <<leaf>>
                /\ tree.layers = <<<<keccak_leaf(leaf)>>>>
                /\ ~RootFails(tree)
                /\ root(tree) = keccak_leaf(leaf)
                /\ ~get_proof_fails(tree, leaf)
                /\ get_proof(tree, leaf) = <<>>
          /\ pc \in {"write", "done"}
             => /\ distribution.merkle_root = encode_hex(keccak_leaf(leaf))
                /\ distribution.claims =
                      <<<<to_checksum_address(a),
                          [index |-> 0, amount |-> Str(total_distribution),
                           proof |-> <<>>]>>>>

C14_Witness ==
    /\ Len(weights) = 1
    /\ weights[1][2] = 2
    /\ total_distribution = 7
    /\ pc = "done"
    /\ Len(tree.layers) = 1
    /\ file.claims[1][2].proof = <<>>

(* the place of a lower-cased address in the iteration order of the weight map *)
FirstPos(a) ==
    CHOOSE i \in DOMAIN weights :
        /\ Lower(weights[i][1]) = a
        /\ \A j \in 1..(i - 1) : Lower(weights[j][1]) # a

(* C16: stable tie-break. The ranking lists every address once, by floor amount
   descending, and among addresses with equal floor amounts in the iteration order of
   the input weight map; the leaf and the artifact record of the address ranked i
   carry index i - 1. The ranking, the leaves and the root are thereby fixed by the
   weight map and its iteration order. *)
C16_StableTieBreak ==
    (pc \in {"dust", "build", "assemble", "write", "done"} /\ SumValues(weights) > 0)
    => LET floors == FloorShares
           share == [i \in DOMAIN addresses |-> DictGet(floors, addresses[i])]
           place == [i \in DOMAIN addresses |-> FirstPos(addresses[i])]
       IN /\ Range(addresses) = LowerAddresses
          /\ Len(addresses) = Cardinality(LowerAddresses)
          /\ \A i, j \in DOMAIN addresses :
                i < j
                => /\ share[i] >= share[j]
                   /\ share[i] = share[j] => place[i] < place[j]
          /\ pc \in {"assemble", "write", "done"}
             => nodes = [i \in DOMAIN addresses |->
                            encode_hex(<<addresses[i][1], i - 1, AmountAt(i)>>)]
          /\ pc = "assemble" => tree = MerkleTree(nodes, keccakSeed)
          /\ pc \in {"write", "done"}
             => \A i \in DOMAIN addresses :
                   /\ distribution.claims[i][1] = to_checksum_address(addresses[i])
                   /\ distribution.claims[i][2].index = i - 1

C16_Witness ==
    /\ pc = "done"
    /\ Len(weights) = 2
    /\ weights[1][1] = <<2, 0>>
    /\ weights[2][1] = <<1, 1>>
    /\ weights[1][2] = weights[2][2]
    /\ total_distribution = 6
    /\ addresses = <<<<2, 0>>, <<1, 0>>>>
    /\ file.claims[1][2].index = 0
    /\ file.claims[1][2].amount = file.claims[2][2].amount

---------------------------------------------------------------------------
(* Properties of MerkleTree and get_proof *)

(* the tree a fresh MerkleTree(elementsIn) is *)
FreshTree == MerkleTree(elementsIn, keccakSeed)

(* the hashes of the leaves handed to the constructor *)
LeafHashes == {keccak_leaf(elementsIn[i]) : i \in DOMAIN elementsIn}

(* C12: empty tree is an error. Building a MerkleTree from zero leaves fails at
   construction: no tree object is ever built from an empty leaf list. *)
C12_EmptyTreeFails ==
    elementsIn = <<>> => pc # "built"

(* C13: leaf not found is an error. get_proof for a leaf whose hash is not in layer 0
   raises (the ValueError of list.index), hands back no proof at all, and the tree's
   elements and layers are what the constructor made them. *)
C13_LeafNotFound ==
    (pc = "built" /\ proofOut.result # "none"
       /\ keccak_leaf(proofOut.leaf) \notin Range(FreshTree.layers[1]))
    => /\ proofOut.result = "ValueError"
       /\ "proof" \notin DOMAIN proofOut
       /\ tree = FreshTree

C13_Witness ==
    /\ pc = "built"
    /\ Len(tree.elements) >= 2
    /\ proofOut.result = "ValueError"
    /\ proofPrev.result = "ValueError"
    /\ tree = FreshTree

(* C15: deduplicated sorted base layer. Layer 0 is the strictly ascending sequence of
   the distinct leaf hashes of the input, and the tree equals the tree built from the
   input with the repeated leaves removed. *)
C15_DedupSortedBase ==
    pc = "built"
    => /\ tree.layers[1] = tree.elements
       /\ Range(tree.elements) = LeafHashes
       /\ Len(tree.elements) = Cardinality(LeafHashes)
       /\ \A i, j \in DOMAIN tree.elements :
             i < j => BytesLess(tree.elements[i], tree.elements[j], keccakSeed)
       /\ tree = MerkleTree(FirstOccurrences(elementsIn, <<>>), keccakSeed)

C15_Witness ==
    /\ pc = "built"
    /\ Len(elementsIn) = 4
    /\ elementsIn[1] = elementsIn[3]
    /\ Cardinality(LeafHashes) = 3
    /\ Len(tree.layers[1]) = 3
    /\ tree2 = NoTree2

(* C17: get_proof is idempotent and read-only. After any number of get_proof calls,
   for any leaves in any order, the tree is the tree the constructor built (elements,
   layers and root), two consecutive calls for the same leaf gave the same result, and
   every proof returned is the one a fresh tree gives for that leaf. *)
C17_GetProofReadOnly ==
    pc = "built"
    => /\ tree = FreshTree
       /\ (proofOut.result = "ok")
          => proofOut.proof = get_proof(FreshTree, proofOut.leaf)
       /\ (proofPrev.result # "none" /\ proofPrev.leaf = proofOut.leaf)
          => proofPrev = proofOut

C17_Witness ==
    /\ pc = "built"
    /\ proofPrev.result = "ok"
    /\ proofOut.result = "ok"
    /\ proofPrev.leaf = proofOut.leaf
    /\ Len(proofOut.proof) = 2
    /\ proofPrev.proof = proofOut.proof

(* C18: layer construction. Each layer above layer 0 has ceil(len(previous)/2)
   elements; element i is the sorted-concatenation hash of previous[2i] and
   previous[2i+1], and the last element of a previous layer of odd length is carried
   unchanged; every layer but the last has more than one element and the last layer
   has exactly one element, the root. *)
C18_LayerConstruction ==
    pc = "built"
    => LET L == tree.layers
       IN /\ \A k \in 2..Len(L) :
                LET prev == L[k - 1]
                IN /\ Len(L[k]) = (Len(prev) + 1) \div 2
                   /\ \A i \in DOMAIN L[k] :
                         IF 2 * i <= Len(prev)
                         THEN LET a == prev[2 * i - 1]
                                  b == prev[2 * i]
                              IN L[k][i] = IF BytesLess(a, b, keccakSeed)
                                           THEN keccak_concat(a, b)
                                           ELSE keccak_concat(b, a)
                         ELSE L[k][i] = prev[Len(prev)]
          /\ \A k \in 1..(Len(L) - 1) : Len(L[k]) > 1
          /\ Len(L[Len(L)]) = 1
          /\ ~RootFails(tree)
          /\ root(tree) = L[Len(L)][1]

(* the entries the passes of the loop appended, in order *)
RECURSIVE ProofOfSteps(_, _)
ProofOfSteps(t, steps) ==
    IF steps = <<>> THEN <<>>
    ELSE (IF steps[1].appended
          THEN <<encode_hex(t.layers[steps[1].layer][steps[1].pair_idx + 1])>>
          ELSE <<>>)
         \o ProofOfSteps(t, Tail(steps))

(* C19: proof shape. While get_proof walks the layers the running index stays inside
   the current layer; a pass appends the sibling exactly when the node has one, so
   nothing at a layer where the node is the carried odd element and nothing at the
   root layer; the proof is the appended siblings in order, never holds the root and
   is at most (number of layers - 1) long. *)
C19_ProofShape ==
    (pc = "built" /\ proofOut.result = "ok")
    => LET L == tree.layers
           steps == get_proof_steps(tree, 1,
                        IndexOf(tree.elements, keccak_leaf(proofOut.leaf)))
       IN /\ Len(steps) = Len(L)
          /\ \A n \in DOMAIN steps :
                LET st == steps[n]
                    len == Len(L[st.layer])
                IN /\ st.layer = n
                   /\ 0 <= st.idx /\ st.idx < len
                   /\ (st.idx = len - 1 /\ len % 2 = 1) => ~st.appended
                   /\ ~(st.idx = len - 1 /\ len % 2 = 1) => st.appended
                   /\ st.layer = Len(L) => ~st.appended
          /\ proofOut.proof = ProofOfSteps(tree, steps)
          /\ encode_hex(root(tree)) \notin Range(proofOut.proof)
          /\ Len(proofOut.proof) <= Len(L) - 1

C19_Witness ==
    /\ pc = "built"
    /\ proofOut.result = "ok"
    /\ Len(tree.layers) = 3
    /\ Len(tree.elements) = 3
    /\ keccak_leaf(proofOut.leaf) = tree.elements[3]
    /\ Len(proofOut.proof) = 1

---------------------------------------------------------------------------
(* utils/event_cache.py: the event-log cache, as scripts/drops/yb/snapshot.py
   drives it.

   An event log is a record [contract, event, block, args]; args is the record of
   the event's parameters. The chain holds at most one log per block. The "caches"
   dict of the cache file is a dict from cache key to entry. *)

ZERO_ADDRESS == <<0, 1>>

(* contract.address of the contracts scanned, and the address a scan filters by *)
ST_YCRV == <<5, 1>>
YBS == <<6, 1>>
LP_YCRV_V2 == <<7, 1>>
CONVEX_DEPOSIT == <<8, 1>>
VEYFI_GAUGE == <<9, 1>>

(* YCRV['CONVEX_PID'] and the id of another Convex pool *)
CONVEX_PID == "pid184"
OTHER_PID == "pid7"

(* search_topics=None *)
NoTopics == [none |-> TRUE]

(* the part of ycrv_positions that runs: the scan of st-yCRV (line 195), the scans
   of lp-yCRVv2 (lines 222 and 304) or the scan of the Convex deposit contract
   (line 321) *)
ScanRoutines == {"st_scan", "lp_scans", "convex_scan"}

(* the account that acts in block b *)
UserOf(b) == <<b, 1>>

(* the logs of the scanned contract that block b may hold *)
LogPool(r, b) ==
    IF r = "st_scan"
    THEN {[contract |-> ST_YCRV, event |-> "Transfer", block |-> b,
           args |-> [sender |-> ZERO_ADDRESS, receiver |-> UserOf(b)]],
          [contract |-> ST_YCRV, event |-> "Transfer", block |-> b,
           args |-> [sender |-> UserOf(b), receiver |-> ZERO_ADDRESS]]}
    ELSE IF r = "lp_scans"
    THEN {[contract |-> LP_YCRV_V2, event |-> "Transfer", block |-> b,
           args |-> [sender |-> ZERO_ADDRESS, receiver |-> UserOf(b)]],
          [contract |-> LP_YCRV_V2, event |-> "Transfer", block |-> b,
           args |-> [sender |-> UserOf(b), receiver |-> VEYFI_GAUGE]]}
    ELSE {[contract |-> CONVEX_DEPOSIT, event |-> "Deposited", block |-> b,
           args |-> [user |-> UserOf(b), poolid |-> CONVEX_PID]],
          [contract |-> CONVEX_DEPOSIT, event |-> "Deposited", block |-> b,
           args |-> [user |-> UserOf(b), poolid |-> OTHER_PID]]}

(* chains of MaxBlock blocks, each block holding no log or one log *)
Chains(r) ==
    {c \in [1..MaxBlock ->
               UNION {{<<>>} \cup {<<l>> : l \in LogPool(r, b)} : b \in 1..MaxBlock}] :
        \A b \in 1..MaxBlock : c[b] = <<>> \/ c[b][1].block = b}

(* args.get(field) *)
ArgsGet(args, field) == IF field \in DOMAIN args THEN args[field] ELSE None

(* a or b or c *)
Or3(a, b, c) == IF a # None THEN a ELSE IF b # None THEN b ELSE c

(* does a log match argument_filters? *)
MatchesTopics(log, topics) ==
    topics = NoTopics
    \/ \A f \in DOMAIN topics : ArgsGet(log.args, f) = topics[f]

(* event.get_logs(fromBlock, toBlock, argument_filters): the logs of the event of the
   contract in the blocks fromBlock..toBlock, in block order *)
RECURSIVE get_logs(_, _, _, _, _, _)
get_logs(chain, contract, event_name, fromBlock, toBlock, topics) ==
    IF fromBlock > toBlock \/ fromBlock > Len(chain) THEN <<>>
    ELSE (IF fromBlock >= 1 /\ chain[fromBlock] # <<>>
             /\ chain[fromBlock][1].contract = contract
             /\ chain[fromBlock][1].event = event_name
             /\ MatchesTopics(chain[fromBlock][1], topics)
          THEN chain[fromBlock]
          ELSE <<>>)
         \o get_logs(chain, contract, event_name, fromBlock + 1, toBlock, topics)

(* the addresses extract_users_from_logs takes from one log *)
UsersOfLog(log, event_name) ==
    IF event_name = "Transfer"
    THEN LET from_addr == Or3(ArgsGet(log.args, "sender"), ArgsGet(log.args, "from"),
                              ArgsGet(log.args, "_from"))
             to_addr == Or3(ArgsGet(log.args, "receiver"), ArgsGet(log.args, "to"),
                            ArgsGet(log.args, "_to"))
         IN {from_addr, to_addr} \ {None}
    ELSE IF event_name = "Deposited"
    THEN {ArgsGet(log.args, "user")} \ {None}
    ELSE {}

(* extract_users_from_logs(logs, event_name) *)
extract_users_from_logs(logs, event_name) ==
    UNION {UsersOfLog(logs[i], event_name) : i \in DOMAIN logs}

(* the order of address strings *)
AddrLess(a, b) == a[1] < b[1] \/ (a[1] = b[1] /\ a[2] > b[2])

(* sorted(list(users)) *)
RECURSIVE SortedUsers(_)
SortedUsers(S) ==
    IF S = {} THEN <<>>
    ELSE LET m == CHOOSE x \in S : \A y \in S \ {x} : AddrLess(x, y)
         IN <<m>> \o SortedUsers(S \ {m})

(* get_cache_key: "0x" + lower-cased address without prefix + "_" + event name *)
get_cache_key(contract_address, event_name) == <<Lower(contract_address), event_name>>

(* update_cache_entry on the cache file: load, set the entry, save *)
update_cache_entry(caches, contract_address, event_name, users, last_scanned_block, contract_name, deploy_block) ==
    DictSet(caches, get_cache_key(contract_address, event_name),
            [contract_address |-> Lower(contract_address),
             contract_name |-> contract_name,
             event_name |-> event_name,
             deploy_block |-> deploy_block,
             last_scanned_block |-> last_scanned_block,
             users |-> SortedUsers(users)])

(* the scans of ycrv_positions: lp-yCRVv2 Transfer (line 222), the same contract and
   event filtered by receiver (line 304), Convex Deposited (line 321). The
   contract_name is the label of the call site. *)
ScanSites(r) ==
    IF r = "st_scan"
    THEN {[contract |-> ST_YCRV, event_name |-> "Transfer",
           contract_name |-> "ST_YCRV", search_topics |-> NoTopics]}
    ELSE IF r = "lp_scans"
    THEN {[contract |-> LP_YCRV_V2, event_name |-> "Transfer",
           contract_name |-> "LP_YCRV_V2", search_topics |-> NoTopics],
          [contract |-> LP_YCRV_V2, event_name |-> "Transfer",
           contract_name |-> "LP_YCRV_V2_VEYFI",
           search_topics |-> [receiver |-> VEYFI_GAUGE]]}
    ELSE {[contract |-> CONVEX_DEPOSIT, event_name |-> "Deposited",
           contract_name |-> "CONVEX_DEPOSIT", search_topics |-> NoTopics]}

(* the deploy blocks of the sites of a routine (YCRV['ST_YCRV_DEPLOY_BLOCK'],
   YCRV['LP_YCRV_V2_DEPLOY_BLOCK'], YCRV['YGAUGE_DEPLOY_BLOCK'],
   YCRV['CONVEX_POOL_DEPLOY_BLOCK']): constants of the configuration, the same in
   every run *)
DeployBlocks(r) ==
    IF r = "st_scan" THEN {[ST_YCRV |-> d] : d \in 1..MaxDeploy}
    ELSE IF r = "lp_scans"
    THEN {[LP_YCRV_V2 |-> d, LP_YCRV_V2_VEYFI |-> g] :
             d \in 1..MaxDeploy, g \in 1..MaxDeploy}
    ELSE {[CONVEX_DEPOSIT |-> d] : d \in 1..MaxDeploy}

(* the arguments of a call: the deploy block of the site and the snapshot height of
   the run's configuration; chunk_size is left at its default *)
ScanCalls(r) ==
    {[contract |-> st.contract, event_name |-> st.event_name,
      contract_name |-> st.contract_name, search_topics |-> st.search_topics,
      deploy_block |-> deployBlocks[st.contract_name], snapshot_height |-> h,
      chunk_size |-> CHUNK_SIZE] :
        st \in ScanSites(r), h \in 1..MaxBlock}

(* the cache file after the scan of the YBS stakers (line 202) of an earlier run *)
YbsCache ==
    update_cache_entry(<<>>, YBS, "Staked", {UserOf(0)}, MaxBlock, "YBS", 1)

InitCache ==
    /\ routine \in ScanRoutines
    /\ pc = "scan"
    /\ chainLogs \in Chains(routine)
    /\ deployBlocks \in DeployBlocks(routine)
    /\ chunked = NoChunked
    /\ summer = NoSummer
    /\ cacheFile \in {<<>>, YbsCache}
    /\ scan = NoScan
    /\ weights = <<>>
    /\ total_distribution = 0
    /\ keccakSeed = 1
    /\ file0 = NoFile
    /\ file = NoFile
    /\ user_amount_data = <<>>
    /\ addresses = <<>>
    /\ iters = 0
    /\ tree = NoTree
    /\ nodes = <<>>
    /\ distribution = NoDistribution
    /\ error = ""
    /\ elementsIn = <<>>
    /\ tree2 = NoTree2
    /\ proofOut = NoProof
    /\ proofPrev = NoProof
    /\ dropRoot = encode_hex(<<>>)
    /\ claimed = {}
    /\ paid = <<>>
    /\ lastTx = NoTx

otherVars == <<inputVars, runVars, harnessVars, contractVars, snapshotVars, pc>>

(* treats every call as a call without a cache entry *)
ScanCall_IgnoreCache ==
    /\ pc = "scan"
    /\ scan.pc \in {"idle", "returned", "failed"}
    /\ \E call \in ScanCalls(routine) :
          LET start_block == call.deploy_block
              total_blocks == call.snapshot_height - start_block + 1
              num_chunks == (total_blocks + call.chunk_size - 1) \div call.chunk_size
          IN IF num_chunks <= 0
             THEN /\ cacheFile' = update_cache_entry(cacheFile, call.contract,
                                     call.event_name, {}, call.snapshot_height,
                                     call.contract_name, call.deploy_block)
                  /\ scan' = [pc |-> "returned", call |-> call, requests |-> <<>>,
                              ret |-> [users |-> {}, logs |-> <<>>]]
             ELSE /\ scan' = [pc |-> "loop", call |-> call,
                              requests |-> <<>>, start_block |-> start_block,
                              cached_users |-> {}, num_chunks |-> num_chunks,
                              i |-> 0, all_logs |-> <<>>, new_users |-> {}]
                  /\ UNCHANGED cacheFile
    /\ UNCHANGED <<chainLogs, deployBlocks>>
    /\ UNCHANGED otherVars

(* scans on from the cached entry without the test `snapshot_height <= last_scanned` *)
ScanCall_NoHitTest ==
    /\ pc = "scan"
    /\ scan.pc \in {"idle", "returned", "failed"}
    /\ \E call \in ScanCalls(routine) :
          LET key == get_cache_key(call.contract, call.event_name)
              cached == DictHas(cacheFile, key)
              cached_entry == DictGet(cacheFile, key)
              start_block == IF cached
                             THEN cached_entry.last_scanned_block + 1
                             ELSE call.deploy_block
              cached_users == IF cached THEN Range(cached_entry.users) ELSE {}
              total_blocks == call.snapshot_height - start_block + 1
              num_chunks == (total_blocks + call.chunk_size - 1) \div call.chunk_size
          IN IF num_chunks <= 0
             THEN /\ cacheFile' =
                        update_cache_entry(cacheFile, call.contract,
                            call.event_name, cached_users, call.snapshot_height,
                            call.contract_name, call.deploy_block)
                  /\ scan' = [pc |-> "returned", call |-> call, requests |-> <<>>,
                              ret |-> [users |-> cached_users, logs |-> <<>>]]
             ELSE /\ scan' = [pc |-> "loop", call |-> call, requests |-> <<>>,
                              start_block |-> start_block,
                              cached_users |-> cached_users,
                              num_chunks |-> num_chunks, i |-> 0,
                              all_logs |-> <<>>, new_users |-> {}]
                  /\ UNCHANGED cacheFile
    /\ UNCHANGED <<chainLogs, deployBlocks>>
    /\ UNCHANGED otherVars

(* scan_events_with_cache up to its loop (lines 134-177): the cache lookup, the cache
   hit that returns, the start block, the number of chunks; with no chunk to scan also
   the final cache update and the return (lines 219-234) *)
ScanCall ==
    /\ pc = "scan"
    /\ scan.pc \in {"idle", "returned", "failed"}
    /\ \E call \in ScanCalls(routine) :
          LET key == get_cache_key(call.contract, call.event_name)
              cached == DictHas(cacheFile, key)
              cached_entry == DictGet(cacheFile, key)
          IN IF cached /\ call.snapshot_height <= cached_entry.last_scanned_block
             THEN /\ scan' = [pc |-> "returned", call |-> call, requests |-> <<>>,
                              ret |-> [users |-> Range(cached_entry.users),
                                       logs |-> <<>>]]
                  /\ UNCHANGED cacheFile
             ELSE LET start_block == IF cached
                                     THEN cached_entry.last_scanned_block + 1
                                     ELSE call.deploy_block
                      cached_users == IF cached THEN Range(cached_entry.users) ELSE {}
                      total_blocks == call.snapshot_height - start_block + 1
                      num_chunks == (total_blocks + call.chunk_size - 1)
                                    \div call.chunk_size
                  IN IF num_chunks <= 0
                     THEN /\ cacheFile' =
                                update_cache_entry(cacheFile, call.contract,
                                    call.event_name, cached_users, call.snapshot_height,
                                    call.contract_name, call.deploy_block)
                          /\ scan' = [pc |-> "returned", call |-> call,
                                      requests |-> <<>>,
                                      ret |-> [users |-> cached_users, logs |-> <<>>]]
                     ELSE /\ scan' = [pc |-> "loop", call |-> call, requests |-> <<>>,
                                      start_block |-> start_block,
                                      cached_users |-> cached_users,
                                      num_chunks |-> num_chunks, i |-> 0,
                                      all_logs |-> <<>>, new_users |-> {}]
                          /\ UNCHANGED cacheFile
    /\ UNCHANGED <<chainLogs, deployBlocks>>
    /\ UNCHANGED otherVars

(* the intermediate and final writes store the users found by this call only *)
ScanChunk_NoMerge ==
    /\ pc = "scan"
    /\ scan.pc = "loop"
    /\ LET call == scan.call
           chunk_start == scan.start_block + scan.i * call.chunk_size
           end == chunk_start + call.chunk_size - 1
           chunk_end == IF end < call.snapshot_height THEN end ELSE call.snapshot_height
           chunk_logs == get_logs(chainLogs, call.contract, call.event_name,
                                  chunk_start, chunk_end, call.search_topics)
           all_logs == scan.all_logs \o chunk_logs
           new_users == scan.new_users
                        \cup extract_users_from_logs(chunk_logs, call.event_name)
           requests == Append(scan.requests, <<chunk_start, chunk_end>>)
       IN IF scan.i < scan.num_chunks - 1
          THEN /\ cacheFile' =
                     update_cache_entry(cacheFile, call.contract, call.event_name,
                         new_users, chunk_end, call.contract_name, call.deploy_block)
               /\ scan' = [scan EXCEPT !.i = scan.i + 1, !.all_logs = all_logs,
                                       !.new_users = new_users, !.requests = requests]
          ELSE /\ cacheFile' =
                     update_cache_entry(cacheFile, call.contract, call.event_name,
                         new_users, call.snapshot_height,
                         call.contract_name, call.deploy_block)
               /\ scan' = [pc |-> "returned", call |-> call, requests |-> requests,
                           ret |-> [users |-> new_users, logs |-> all_logs]]
    /\ UNCHANGED <<chainLogs, deployBlocks>>
    /\ UNCHANGED otherVars

(* the chunk ends at chunk_start + chunk_size, one block into the next chunk *)
ScanChunk_Overlap ==
    /\ pc = "scan"
    /\ scan.pc = "loop"
    /\ LET call == scan.call
           chunk_start == scan.start_block + scan.i * call.chunk_size
           end == chunk_start + call.chunk_size
           chunk_end == IF end < call.snapshot_height THEN end ELSE call.snapshot_height
           chunk_logs == get_logs(chainLogs, call.contract, call.event_name,
                                  chunk_start, chunk_end, call.search_topics)
           all_logs == scan.all_logs \o chunk_logs
           new_users == scan.new_users
                        \cup extract_users_from_logs(chunk_logs, call.event_name)
           requests == Append(scan.requests, <<chunk_start, chunk_end>>)
       IN IF scan.i < scan.num_chunks - 1
          THEN /\ cacheFile' =
                     update_cache_entry(cacheFile, call.contract, call.event_name,
                         scan.cached_users \cup new_users, chunk_end,
                         call.contract_name, call.deploy_block)
               /\ scan' = [scan EXCEPT !.i = scan.i + 1, !.all_logs = all_logs,
                                       !.new_users = new_users, !.requests = requests]
          ELSE /\ cacheFile' =
                     update_cache_entry(cacheFile, call.contract, call.event_name,
                         scan.cached_users \cup new_users, call.snapshot_height,
                         call.contract_name, call.deploy_block)
               /\ scan' = [pc |-> "returned", call |-> call, requests |-> requests,
                           ret |-> [users |-> scan.cached_users \cup new_users,
                                    logs |-> all_logs]]
    /\ UNCHANGED <<chainLogs, deployBlocks>>
    /\ UNCHANGED otherVars

(* one pass of the chunk loop (lines 179-216); after the last chunk also the final
   cache update and the return (lines 219-234) *)
ScanChunk ==
    /\ pc = "scan"
    /\ scan.pc = "loop"
    /\ LET call == scan.call
           chunk_start == scan.start_block + scan.i * call.chunk_size
           end == chunk_start + call.chunk_size - 1
           chunk_end == IF end < call.snapshot_height THEN end ELSE call.snapshot_height
           chunk_logs == get_logs(chainLogs, call.contract, call.event_name,
                                  chunk_start, chunk_end, call.search_topics)
           all_logs == scan.all_logs \o chunk_logs
           new_users == scan.new_users
                        \cup extract_users_from_logs(chunk_logs, call.event_name)
           requests == Append(scan.requests, <<chunk_start, chunk_end>>)
       IN IF scan.i < scan.num_chunks - 1
          THEN /\ cacheFile' =
                     update_cache_entry(cacheFile, call.contract, call.event_name,
                         scan.cached_users \cup new_users, chunk_end,
                         call.contract_name, call.deploy_block)
               /\ scan' = [scan EXCEPT !.i = scan.i + 1, !.all_logs = all_logs,
                                       !.new_users = new_users, !.requests = requests]
          ELSE /\ cacheFile' =
                     update_cache_entry(cacheFile, call.contract, call.event_name,
                         scan.cached_users \cup new_users, call.snapshot_height,
                         call.contract_name, call.deploy_block)
               /\ scan' = [pc |-> "returned", call |-> call, requests |-> requests,
                           ret |-> [users |-> scan.cached_users \cup new_users,
                                    logs |-> all_logs]]
    /\ UNCHANGED <<chainLogs, deployBlocks>>
    /\ UNCHANGED otherVars

(* event.get_logs raises (the RPC request fails): the exception leaves the call *)
ScanFails ==
    /\ pc = "scan"
    /\ scan.pc = "loop"
    /\ scan' = [pc |-> "failed", call |-> scan.call, requests |-> scan.requests,
                start_block |-> scan.start_block]
    /\ UNCHANGED <<cacheFile, chainLogs, deployBlocks>>
    /\ UNCHANGED otherVars

NextCache ==
    \/ ScanCall
    \/ ScanChunk
    \/ ScanFails

SpecCache == InitCache /\ [][NextCache]_vars

(* the call returned to its caller *)
ScanReturned == pc = "scan" /\ scan.pc = "returned"

(* the entry of the cache file for the contract and event of a call *)
EntryFor(caches, call) == DictGet(caches, get_cache_key(call.contract, call.event_name))

(* the cache file holds an entry for the contract and event of the call whose
   last_scanned_block is at or after the call's snapshot_height *)
CacheHit(caches, call) ==
    /\ DictHas(caches, get_cache_key(call.contract, call.event_name))
    /\ call.snapshot_height <= EntryFor(caches, call).last_scanned_block

(* C20: cache hit is read-only. A call made while the cache holds an entry for
   (contract, event) with snapshot_height <= last_scanned_block returns at once with
   exactly the entry's users and an empty log list, requests no logs, and leaves the
   cache file, the entry included, as it was. *)
C20_CacheHitReadOnly ==
    [][(pc = "scan" /\ scan.pc # "loop" /\ CacheHit(cacheFile, scan'.call))
       => /\ scan'.pc = "returned"
          /\ scan'.ret.users = Range(EntryFor(cacheFile, scan'.call).users)
          /\ scan'.ret.logs = <<>>
          /\ scan'.requests = <<>>
          /\ cacheFile' = cacheFile
          /\ EntryFor(cacheFile', scan'.call) = EntryFor(cacheFile, scan'.call)]_vars

C20_Witness ==
    /\ ScanReturned
    /\ CacheHit(cacheFile, scan.call)
    /\ scan.call.snapshot_height = 2
    /\ EntryFor(cacheFile, scan.call).last_scanned_block = 3
    /\ scan.requests = <<>>
    /\ scan.ret.logs = <<>>
    /\ Cardinality(scan.ret.users) >= 2
    /\ scan.ret.users = Range(EntryFor(cacheFile, scan.call).users)
    /\ Len(cacheFile) = 2
    /\ get_logs(chainLogs, scan.call.contract, scan.call.event_name, 1, 2, NoTopics)
       # <<>>

(* the last element of a non-empty sequence *)
Last(s) == s[Len(s)]

(* two calls address the same cache entry *)
SameEntry(a, b) ==
    get_cache_key(a.contract, a.event_name) = get_cache_key(b.contract, b.event_name)

(* the logs a call has fetched when its requests reached block upto *)
ScannedLogs(call, start_block, upto) ==
    get_logs(chainLogs, call.contract, call.event_name, start_block, upto,
             call.search_topics)

(* C21: cache coverage. After every write of a cache entry by scan_events_with_cache
   (the intermediate write after each non-final chunk and the final write) the stored
   users contain the previously cached users and every address extracted from the logs
   of all blocks scanned so far, and last_scanned_block is the last block of the last
   chunk scanned, which is snapshot_height after the final write. A scan that fails in
   chunk i therefore leaves an entry from which the next scan of the entry resumes at
   the first unscanned block. *)
C21_CacheCoverage ==
    [][/\ (pc = "scan" /\ scan.pc = "loop" /\ scan'.pc # "failed")
          => LET call == scan.call
                 upto == Last(scan'.requests)[2]
                 entry == EntryFor(cacheFile', call)
             IN /\ DictHas(cacheFile', get_cache_key(call.contract, call.event_name))
                /\ scan.cached_users \subseteq Range(entry.users)
                /\ extract_users_from_logs(ScannedLogs(call, scan.start_block, upto),
                                           call.event_name)
                   \subseteq Range(entry.users)
                /\ entry.last_scanned_block = upto
                /\ scan'.pc = "returned" => entry.last_scanned_block = call.snapshot_height
       /\ (pc = "scan" /\ scan.pc # "loop" /\ cacheFile' # cacheFile)
          => LET call == scan'.call
                 key == get_cache_key(call.contract, call.event_name)
                 before == IF DictHas(cacheFile, key)
                           THEN Range(DictGet(cacheFile, key).users) ELSE {}
             IN /\ scan'.pc = "returned"
                /\ before \subseteq Range(EntryFor(cacheFile', call).users)
                /\ EntryFor(cacheFile', call).last_scanned_block = call.snapshot_height
       /\ (pc = "scan" /\ scan.pc = "failed" /\ scan'.pc = "loop"
           /\ SameEntry(scan.call, scan'.call))
          => IF scan.requests # <<>>
             THEN scan'.start_block = Last(scan.requests)[2] + 1
             ELSE scan'.call.deploy_block = scan.call.deploy_block
                  => scan'.start_block = scan.start_block]_vars

(* a scan of blocks 1..3 failed in its second chunk after the first chunk's write *)
C21_Witness ==
    /\ pc = "scan"
    /\ scan.pc = "failed"
    /\ scan.start_block = 1
    /\ scan.call.snapshot_height = 3
    /\ scan.requests = <<<<1, 2>>>>
    /\ DictHas(cacheFile, get_cache_key(scan.call.contract, scan.call.event_name))
    /\ EntryFor(cacheFile, scan.call).last_scanned_block = 2
    /\ UserOf(1) \in Range(EntryFor(cacheFile, scan.call).users)
    /\ UserOf(2) \in Range(EntryFor(cacheFile, scan.call).users)

(* ADDRESS_KEYS_BY_EVENT of snapshot.py *)
ADDRESS_KEYS_BY_EVENT(event) ==
    IF event = "Transfer" THEN {"receiver", "sender", "_to", "_from", "to", "from"}
    ELSE IF event = "Staked" THEN {"account"}
    ELSE IF event = "Deposited" THEN {"user"}
    ELSE IF event = "CreateEscrow" THEN {"user", "escrow"}
    ELSE {}

(* extract_addresses(logs, event) of snapshot.py: the values of the address keys of
   the event that are set and are not the zero address *)
extract_addresses(logs, event) ==
    UNION {{ArgsGet(logs[i].args, k) : k \in ADDRESS_KEYS_BY_EVENT(event)}
           : i \in DOMAIN logs} \ {None, ZERO_ADDRESS}

(* `extract_addresses(logs, event) if logs else cached_users`: the user set
   ycrv_positions takes from the pair a scan returned *)
snapshot_users(ret, event) ==
    IF ret.logs # <<>> THEN extract_addresses(ret.logs, event) ELSE ret.users

(* convex_users of ycrv_positions (lines 326-342): the users of the returned logs of
   pool CONVEX_PID, or the returned cached users when no log was returned *)
convex_users(ret) ==
    IF ret.logs # <<>>
    THEN {ArgsGet(ret.logs[i].args, "user") :
             i \in {j \in DOMAIN ret.logs :
                       ArgsGet(ret.logs[j].args, "poolid") = CONVEX_PID}} \ {None}
    ELSE ret.users

(* every log of the chain *)
ChainLogs == UNION {Range(chainLogs[b]) : b \in DOMAIN chainLogs}

(* the users of the Deposited events of the Convex deposit contract for pool
   CONVEX_PID *)
PoolDepositors ==
    {l.args.user : l \in {x \in ChainLogs : /\ x.contract = CONVEX_DEPOSIT
                                            /\ x.event = "Deposited"
                                            /\ x.args.poolid = CONVEX_PID}}

(* C22: the Convex pool filter survives caching. The Convex user set ycrv_positions
   uses holds only users of Deposited events whose poolid is CONVEX_PID, both when
   the scan returned new logs and when the set is the cached one. *)
C22_ConvexFilter ==
    (ScanReturned /\ scan.call.contract = CONVEX_DEPOSIT)
    => convex_users(scan.ret) \subseteq PoolDepositors

(* C23: the snapshot user set does not depend on the cache state. For the scanned
   contract and event, the user set ycrv_positions uses (extract_addresses of the
   returned logs when logs were returned, otherwise the returned cached users)
   contains every non-zero address of every matching event from the deploy block to
   the snapshot height, whether the scan started from an empty cache, from a cache
   covering a prefix of the block range, or from a cache covering the whole range. *)
C23_CacheIndependent ==
    (ScanReturned /\ routine = "st_scan")
    => extract_addresses(get_logs(chainLogs, scan.call.contract, scan.call.event_name,
                                  scan.call.deploy_block, scan.call.snapshot_height,
                                  NoTopics),
                         scan.call.event_name)
       \subseteq snapshot_users(scan.ret, scan.call.event_name)

(* C24: filtered scans are isolated. A scan_events_with_cache call with
   search_topics returns only addresses taken from logs that match that filter,
   whatever earlier scans of the same contract and event were made with a different
   filter or with none. *)
C24_FilteredIsolated ==
    (ScanReturned /\ scan.call.search_topics # NoTopics)
    => scan.ret.users
       \subseteq extract_users_from_logs(
                     get_logs(chainLogs, scan.call.contract, scan.call.event_name,
                              1, Len(chainLogs), scan.call.search_topics),
                     scan.call.event_name)

(* C25: cache monotonicity. Over any sequence of scan_events_with_cache calls for the
   same contract and event, including calls that fail part-way and calls with a
   smaller snapshot_height, the entry's last_scanned_block never decreases and its
   users never lose an address (and the entry is never removed). *)
C25_CacheMonotone ==
    [][\A i \in DOMAIN cacheFile :
          LET key == cacheFile[i][1]
              entry == cacheFile[i][2]
          IN /\ DictHas(cacheFile', key)
             /\ DictGet(cacheFile', key).last_scanned_block >= entry.last_scanned_block
             /\ Range(entry.users) \subseteq Range(DictGet(cacheFile', key).users)]_vars

(* a later call scanned block 3 on top of an entry that held the users of the blocks
   before it; the entry holds the earlier users and the new one *)
C25_Witness ==
    /\ ScanReturned
    /\ scan.requests = <<<<3, 3>>>>
    /\ scan.ret.logs # <<>>
    /\ EntryFor(cacheFile, scan.call).last_scanned_block = 3
    /\ UserOf(3) \in Range(EntryFor(cacheFile, scan.call).users)
    /\ \E b \in 1..2 : /\ UserOf(b) \in Range(EntryFor(cacheFile, scan.call).users)
                       /\ UserOf(b) \notin extract_users_from_logs(scan.ret.logs,
                                                                   scan.call.event_name)

(* how often block b was requested *)
TimesRequested(requests, b) ==
    Cardinality({k \in DOMAIN requests : requests[k][1] <= b /\ b <= requests[k][2]})

(* C26: chunk partition. In scan_events_with_cache with start_block <=
   snapshot_height the scanned chunks [chunk_start, chunk_end] are contiguous and do
   not overlap, each spans at least one and at most chunk_size blocks, the first
   starts at start_block and the last ends at snapshot_height, so every block of the
   range is requested exactly once (and no block outside it). *)
C26_ChunkPartition ==
    [][(pc = "scan" /\ scan.pc = "loop" /\ scan'.pc # "failed"
        /\ scan.start_block <= scan.call.snapshot_height)
       => LET req == scan'.requests
              call == scan.call
          IN /\ req[1][1] = scan.start_block
             /\ \A k \in DOMAIN req :
                   /\ req[k][1] <= req[k][2]
                   /\ req[k][2] - req[k][1] + 1 <= call.chunk_size
                   /\ k > 1 => req[k][1] = req[k - 1][2] + 1
             /\ Last(req)[2] <= call.snapshot_height
             /\ scan'.pc = "returned"
                => /\ Last(req)[2] = call.snapshot_height
                   /\ \A b \in 0..(MaxBlock + 1) :
                         TimesRequested(req, b)
                         = IF scan.start_block <= b /\ b <= call.snapshot_height
                           THEN 1 ELSE 0]_vars

(* a scan of blocks 1..3 in two chunks, 1..2 and 3..3 *)
C26_Witness ==
    /\ ScanReturned
    /\ scan.call.deploy_block = 1
    /\ scan.call.snapshot_height = 3
    /\ scan.requests = <<<<1, 2>>, <<3, 3>>>>
    /\ Len(scan.ret.logs) = 3

---------------------------------------------------------------------------
(* get_logs_chunked of utils/eth.py *)

(* no block was found: contract_creation_block returns None *)
NoBlock == 0

(* contract_creation_block by its binary search over get_code, for a contract whose
   code exists from block created on: lo = 0, hi = end = block_number *)
RECURSIVE creation_search(_, _, _, _)
creation_search(created, lo, hi, end) ==
    IF hi - lo > 1
    THEN LET mid == lo + (hi - lo) \div 2
         IN IF mid >= created
            THEN creation_search(created, lo, mid, end)
            ELSE creation_search(created, mid, hi, end)
    ELSE IF hi # end THEN hi ELSE NoBlock

contract_creation_block(created, block_number) ==
    creation_search(created, 0, block_number, block_number)

(* the calls: start_block and end_block 0 stand for "from creation" and "to the
   latest block" *)
ChunkedCalls ==
    {[pc |-> "called", start_block |-> s, end_block |-> e, chunk_size |-> c,
      created |-> k] :
        s \in 0..MaxBlock, e \in 0..MaxBlock, c \in 1..MaxChunk, k \in 1..MaxBlock}

InitChunked ==
    /\ routine = "get_logs_chunked"
    /\ pc = "get_logs"
    /\ chainLogs \in Chains("st_scan")
    /\ chunked \in {c \in ChunkedCalls : c.start_block # 0 => c.created = 1}
    /\ summer = NoSummer
    /\ cacheFile = <<>>
    /\ deployBlocks = <<>>
    /\ scan = NoScan
    /\ weights = <<>>
    /\ total_distribution = 0
    /\ keccakSeed = 1
    /\ file0 = NoFile
    /\ file = NoFile
    /\ user_amount_data = <<>>
    /\ addresses = <<>>
    /\ iters = 0
    /\ tree = NoTree
    /\ nodes = <<>>
    /\ distribution = NoDistribution
    /\ error = ""
    /\ elementsIn = <<>>
    /\ tree2 = NoTree2
    /\ proofOut = NoProof
    /\ proofPrev = NoProof
    /\ dropRoot = encode_hex(<<>>)
    /\ claimed = {}
    /\ paid = <<>>
    /\ lastTx = NoTx

chunkedFrame == <<inputVars, runVars, harnessVars, contractVars, cacheVars, summer, pc>>

(* lines 66-76: the event object, the defaults of start_block and end_block, the
   empty log list. A start_block of None fails the first loop test. *)
ChunkedDefaults ==
    /\ pc = "get_logs"
    /\ chunked.pc = "called"
    /\ LET block_number == Len(chainLogs)
           start_block == IF chunked.start_block = 0
                          THEN contract_creation_block(chunked.created, block_number)
                          ELSE chunked.start_block
           end_block == IF chunked.end_block = 0 THEN block_number
                        ELSE chunked.end_block
       IN IF start_block = NoBlock
          THEN chunked' = [pc |-> "failed", error |-> "TypeError"]
          ELSE chunked' = [pc |-> "loop", first_block |-> start_block,
                           start_block |-> start_block, end_block |-> end_block,
                           chunk_size |-> chunked.chunk_size, logs |-> <<>>,
                           requests |-> <<>>]
    /\ UNCHANGED chunkedFrame

(* lines 77-79: one pass of the loop *)
ChunkedStep ==
    /\ pc = "get_logs"
    /\ chunked.pc = "loop"
    /\ chunked.start_block < chunked.end_block
    /\ LET upto == chunked.start_block + chunked.chunk_size
           toBlock == IF chunked.end_block < upto THEN chunked.end_block ELSE upto
       IN chunked' =
             [chunked EXCEPT
                 !.logs = chunked.logs \o get_logs(chainLogs, ST_YCRV, "Transfer",
                                                   chunked.start_block, toBlock,
                                                   NoTopics),
                 !.requests = Append(chunked.requests,
                                     <<chunked.start_block, toBlock>>),
                 !.start_block = chunked.start_block + chunked.chunk_size]
    /\ UNCHANGED chunkedFrame

(* lines 77 and 81: the loop test fails and the logs are returned *)
ChunkedReturn ==
    /\ pc = "get_logs"
    /\ chunked.pc = "loop"
    /\ ~(chunked.start_block < chunked.end_block)
    /\ chunked' = [pc |-> "returned", first_block |-> chunked.first_block,
                   end_block |-> chunked.end_block, logs |-> chunked.logs,
                   requests |-> chunked.requests]
    /\ UNCHANGED chunkedFrame

NextChunked ==
    \/ ChunkedDefaults
    \/ ChunkedStep
    \/ ChunkedReturn

SpecChunked == InitChunked /\ [][NextChunked]_vars

(* C27: get_logs_chunked returns every log of the inclusive block range
   [start_block, end_block] exactly once: no block is requested twice across
   consecutive chunks, no block of the range is left out (also when start_block
   equals end_block), and the loop ends (it makes no more requests than the range
   has blocks). *)
C27_ChunkedExactlyOnce ==
    /\ (pc = "get_logs" /\ chunked.pc = "returned")
       => /\ chunked.logs = get_logs(chainLogs, ST_YCRV, "Transfer",
                                     chunked.first_block, chunked.end_block, NoTopics)
          /\ \A b \in chunked.first_block..chunked.end_block :
                TimesRequested(chunked.requests, b) = 1
    /\ (pc = "get_logs" /\ chunked.pc \in {"loop", "returned"}
        /\ chunked.first_block <= chunked.end_block)
       => Len(chunked.requests) <= chunked.end_block - chunked.first_block + 1

---------------------------------------------------------------------------
(* the Summer proxy consolidation of ycrv_positions (snapshot.py lines 396-420) *)

(* the accounts the guard knows *)
SummerAccounts == {<<a, 1>> : a \in 1..MaxAccounts}

(* guard.owners at SNAPSHOT_HEIGHT: the owner of a proxy, the zero address for an
   account that is no proxy *)
GuardOwners == [SummerAccounts -> SummerAccounts \cup {ZERO_ADDRESS}]

(* values.get(k, 0) *)
DictGetOr(d, k, default) == IF DictHas(d, k) THEN DictGet(d, k) ELSE default

(* d.pop(k, None) *)
RECURSIVE DictPop(_, _)
DictPop(d, k) ==
    IF d = <<>> THEN <<>>
    ELSE IF d[1][1] = k THEN Tail(d)
    ELSE <<d[1]>> \o DictPop(Tail(d), k)

(* the dicts `values` the consolidation may start from *)
RECURSIVE ValueDicts(_)
ValueDicts(n) ==
    IF n = 0 THEN {<<>>}
    ELSE LET shorter == ValueDicts(n - 1)
         IN shorter
            \cup {Append(d, <<a, v>>) :
                     d \in {x \in shorter : Len(x) = n - 1},
                     a \in SummerAccounts, v \in 1..MaxValue}

InitSummer ==
    /\ routine = "ycrv_positions"
    /\ pc = "summer"
    /\ \E values \in {d \in ValueDicts(MaxListed) :
                         /\ d # <<>>
                         /\ \A i, j \in DOMAIN d : i # j => d[i][1] # d[j][1]},
          owners \in GuardOwners :
          summer = [pc |-> "loop", values |-> values, before |-> values,
                    owners |-> owners, account_list |-> DictKeys(values), idx |-> 1,
                    proxies_consolidated |-> 0]
    /\ chunked = NoChunked
    /\ cacheFile = <<>>
    /\ chainLogs = <<>>
    /\ deployBlocks = <<>>
    /\ scan = NoScan
    /\ weights = <<>>
    /\ total_distribution = 0
    /\ keccakSeed = 1
    /\ file0 = NoFile
    /\ file = NoFile
    /\ user_amount_data = <<>>
    /\ addresses = <<>>
    /\ iters = 0
    /\ tree = NoTree
    /\ nodes = <<>>
    /\ distribution = NoDistribution
    /\ error = ""
    /\ elementsIn = <<>>
    /\ tree2 = NoTree2
    /\ proofOut = NoProof
    /\ proofPrev = NoProof
    /\ dropRoot = encode_hex(<<>>)
    /\ claimed = {}
    /\ paid = <<>>
    /\ lastTx = NoTx

summerFrame == <<inputVars, runVars, harnessVars, contractVars, cacheVars, chunked, pc>>

(* lines 411-419 for one account of account_list. The owners of a chunk are read
   (lines 407-409) before its accounts are processed; they are the guard's owners at
   SNAPSHOT_HEIGHT whichever chunk reads them. *)
ConsolidateAccount ==
    /\ pc = "summer"
    /\ summer.pc = "loop"
    /\ summer.idx <= Len(summer.account_list)
    /\ LET account == summer.account_list[summer.idx]
           owner == summer.owners[account]
           value == DictGetOr(summer.values, account, 0)
           added == DictSet(summer.values, owner,
                            DictGetOr(summer.values, owner, 0) + value)
       IN IF owner # ZERO_ADDRESS
          THEN summer' = [summer EXCEPT
                             !.values = DictPop(added, account),
                             !.proxies_consolidated = summer.proxies_consolidated + 1,
                             !.idx = summer.idx + 1]
          ELSE summer' = [summer EXCEPT !.idx = summer.idx + 1]
    /\ UNCHANGED summerFrame

(* the loop of line 403 is through *)
ConsolidateDone ==
    /\ pc = "summer"
    /\ summer.pc = "loop"
    /\ summer.idx > Len(summer.account_list)
    /\ summer' = [summer EXCEPT !.pc = "done"]
    /\ UNCHANGED summerFrame

NextSummer ==
    \/ ConsolidateAccount
    \/ ConsolidateDone

SpecSummer == InitSummer /\ [][NextSummer]_vars

(* the account a proxy's value belongs to: the end of its chain of owners, None when
   the chain does not end *)
RECURSIVE FinalOwner(_, _, _)
FinalOwner(owners, account, n) ==
    IF owners[account] = ZERO_ADDRESS THEN account
    ELSE IF n = 0 THEN None
    ELSE FinalOwner(owners, owners[account], n - 1)

(* the values of the listed accounts that belong to account k *)
ValueOwed(before, owners, k) ==
    SumSeq([i \in DOMAIN before |->
               IF FinalOwner(owners, before[i][1], MaxAccounts) = k
               THEN before[i][2] ELSE 0])

(* C28: the Summer proxy consolidation conserves value. After the loop the sum of all
   values equals the sum before it, no account whose guard owner is non-zero remains
   with a value of its own, and each proxy's value has been added to its owner
   exactly once: an account that is no proxy holds its own value and the values of
   its proxies (also when the owner is itself in the account list, is processed
   earlier or later, or equals the proxy). *)
C28_ConsolidationConserves ==
    (pc = "summer" /\ summer.pc = "done")
    => /\ SumValues(summer.values) = SumValues(summer.before)
       /\ \A i \in DOMAIN summer.values :
             summer.owners[summer.values[i][1]] = ZERO_ADDRESS
       /\ \A k \in SummerAccounts :
             summer.owners[k] = ZERO_ADDRESS
             => DictGetOr(summer.values, k, 0)
                = ValueOwed(summer.before, summer.owners, k)

====
